---------------------------- MODULE Spec2Model ----------------------------
(***************************************************************************)
(* Verification model of Aiyagari_PFI_Small.py (policy function iteration  *)
(* for the Aiyagari economy).                                              *)
(*                                                                         *)
(* The program is modelled component by component, each component being   *)
(* one specification over the shared variables:                            *)
(*   SpecSolve : the equilibrium loop of AiyagariPFISmall.solve_model      *)
(*   SpecCtor  : AiyagariPFISmall.__init__ with its setup methods          *)
(*   SpecStat  : AiyagariPFISmall.stationary_mc                            *)
(*   Spec      : one household solve (solve_hh), the discrete forward      *)
(*               iteration (discrete_stationary_density) and aggregation,  *)
(*               as called by ge_algorithm and by graph_supply_demand      *)
(*   SpecMC    : simulate_MonteCarlo                                       *)
(*   SpecEig   : eigen_stationary_density                                  *)
(*   SpecEE    : ee_error                                                  *)
(*   SpecGrid  : make_grid                                                 *)
(*   SpecLoop  : solve_model with ge_algorithm followed stage by stage     *)
(*   SpecQ     : the transition matrix of eigen_stationary_density, for    *)
(*               every monotone policy table                               *)
(*   SpecPar   : simulate_MonteCarlo with the agents of a period taken in  *)
(*               any order (prange)                                        *)
(*   SpecFrozen: the arrays of an instance through any sequence of calls   *)
(*   SpecInst  : construction followed by calls of solve_model, stage by   *)
(*               stage, on the attributes of the instance                  *)
(*   SpecSolveFair : SpecSolve with the steps of the program being taken   *)
(*                                                                         *)
(* Real numbers are held as scaled integers.  Interest rates are counted   *)
(* in units of 1e-6 (RateScale units make 1.0).                            *)
(***************************************************************************)
EXTENDS Integers, Sequences, FiniteSets, TLC

VARIABLES
    \* ---- solve_model (locals of the method and the attributes it sets)
    sm_pc,        \* position in solve_model
    it,           \* loop variable of "for it in range(self.maxit_ss)"; -1 = unbound
    r_guess,      \* local r_guess, units of 1e-6 (bound by SM_Start)
    diff,         \* local diff (None before the first ge_algorithm call)
    diff_old,     \* local diff_old (None = unbound, Inf = np.inf)
    diff_prev,    \* history: |diff| the previous outer iteration left in diff_old
    r_ss,         \* attribute self.r_ss (None = not set)
    w_ss,         \* attribute self.w_ss, as the rate w_func was applied to
    r_used,       \* the r_ss_guess of the last call of ge_algorithm: the rate
                  \* self.pol_sav, self.pol_cons and self.k_ss were computed at
    no_conv_msg,  \* whether print("No convergence") was executed
    sm_converged, \* history: the loop was left through "break"
    \* ---- AiyagariPFISmall.__init__
    ctor_pc,      \* position in __init__
    opt,          \* the constructor's arguments
    attrs,        \* names of the instance attributes that are set
    ctor_exc,     \* the exception __init__ ended with ("" = none)
    solve_started, \* solve_model was called on the constructed instance
    \* ---- the arrays of an instance
    fz_pc,        \* "new", "ready" (constructed) or "failed"
    fz_opt,       \* the options the instance was constructed with
    fz_arr,       \* name -> the array it is bound to
    fz_frozen,    \* history: the grids and matrices as the constructor left them
    fz_calls,     \* number of method calls made on the instance
    \* ---- solve_model on a constructed instance
    inst_pc,      \* the stage of solve_model that runs next
    inst_calls,   \* number of calls of solve_model made
    inst_exc,     \* the exception a call ended with ("" = none)
    \* ---- AiyagariPFISmall.stationary_mc
    smc_pc,       \* position in stationary_mc
    smc_pi,       \* the argument pi (a matrix: a sequence of rows, entries /PiDen)
    smc_p,        \* local p, the working copy
    smc_i,        \* loop variable i of line 221
    smc_out,      \* the returned vector [num, den] or the exception raised
    \* ---- solve_hh (locals) and its caller
    hh_pc,        \* position in solve_hh
    hh_in,        \* the arguments: params_pfi, r, w
    pol_sav_old,  \* local pol_sav_old
    pol_sav,      \* local pol_sav
    pol_cons,     \* local pol_cons
    hh_it,        \* loop variable it of line 874
    hh_iz,        \* loop variable i_z of line 875 (1-based)
    hh_ia,        \* loop variable i_a of line 876 (1-based)
    hh_conv,      \* history: the sweep loop was left through "break"
    hh_swept,     \* history: pol_sav as the latest completed sweep left it
    pl_pc,        \* position in the caller (ge_algorithm / graph_supply_demand)
    caller,       \* which method called solve_hh
    method,       \* self.distribution_method
    hh_ret,       \* the triple solve_hh returned (None before)
    engine,       \* the distribution engine the caller invoked ("" = none yet)
    error,        \* the message of the exception the caller ended with ("" = none)
    k_ss,         \* aggregate capital [num, den] (None-like before it is computed)
    \* ---- discrete_stationary_density (locals)
    dis_pc,       \* position in discrete_stationary_density
    stationary_pdf_old, \* local stationary_pdf_old, [num, den]: entries num[iz][ia]/den
    stationary_pdf,     \* local stationary_pdf, same representation
    dis_it,       \* loop variable it of line 1136
    dis_conv,     \* history: the sweep loop was left through "break"
    dis_ret,      \* the pair discrete_stationary_density returned
    \* ---- simulate_MonteCarlo (locals)
    mc_pc,        \* position in simulate_MonteCarlo
    mc_in,        \* the arguments: pol_sav and, of params_sim, a0 and z0
    mc_t,         \* loop variable t of line 1013
    sim_sav,      \* local sim_sav, one entry per agent
    sim_z_idx,    \* local sim_z_idx, one entry per agent (1-based)
    edge,         \* local edge
    at_top,       \* history: the agents whose savings reached grid_a[-1]
    euler_error_sim, \* per agent: NaN, or the residual of the period it was computed in
    sim_k,        \* sim_k[t] * simN: the sum of the assets held at the start of period t
    par_draw,     \* the shuffled draw of the period whose prange loop is running
    par_todo,     \* the agents whose work item of that loop has not run yet
    par_edge,     \* the reduction of edge: the count each work item adds
    par_ref,      \* history: what the loop gives when run in index order
    \* ---- solve_hh: how the latest cell was decided, and which arrays the
    \* ---- names pol_sav and pol_sav_old are bound to
    hh_cell,      \* history: the residual signs and the branch taken for the latest cell
    ref_pol_sav,      \* the array object the name pol_sav is bound to (0 = unbound)
    ref_pol_sav_old,  \* the array object the name pol_sav_old is bound to
    hh_alloc,     \* number of array objects solve_hh has allocated
    \* ---- discrete_stationary_density: the same for its tables
    pdf_raw,      \* history: stationary_pdf as the loops of a sweep left it (before line 1176)
    ref_pdf,      \* the array object the name stationary_pdf is bound to
    ref_pdf_old,  \* the array object the name stationary_pdf_old is bound to
    ref_written,  \* history: the array object the latest sweep wrote into
    dis_alloc,    \* number of array objects discrete_stationary_density has allocated
    dis_runs,     \* number of calls of discrete_stationary_density so far
    dis_again,    \* history: what the previous call returned, and whether it converged
    \* ---- AiyagariPFISmall.eigen_stationary_density
    eig_pc,       \* position in eigen_stationary_density
    eig_in,       \* self.pol_sav and self.a_min of the instance
    Q,            \* local Q, entries over PiDen * GridStep
    eigen_vec_stat, \* local eigen_vec_stat
    eig_ret,      \* the returned stationary_pdf [num, den]
    \* ---- AiyagariPFISmall.ee_error
    ee_pc,        \* position in ee_error
    ee_in,        \* self.pol_sav and self.a_min of the instance
    euler_error,  \* local euler_error: per cell "nan" or "value"
    ee_used,      \* the cells np.nanmax / np.nanmean are taken over
    \* ---- AiyagariPFISmall.make_grid
    mg_pc,        \* position in make_grid
    mg_in,        \* the arguments min_val, max_val, num, curv
    grd,          \* local grd
    mg_i,         \* loop variable i of line 203
    \* ---- ge_algorithm as called by solve_model
    ge_pc,        \* position in ge_algorithm
    ge_method,    \* self.distribution_method
    ge_trace,     \* history: the stages of the current outer iteration, in order
    ge_error      \* the exception ge_algorithm ended with ("" = none)

solveVars == <<sm_pc, it, r_guess, diff, diff_old, diff_prev, r_ss, no_conv_msg,
               sm_converged, w_ss, r_used>>
fzVars == <<fz_pc, fz_opt, fz_arr, fz_frozen, fz_calls>>
instVars == <<inst_pc, inst_calls, inst_exc>>
ctorVars == <<ctor_pc, opt, attrs, ctor_exc, solve_started, fzVars, instVars>>
smcVars == <<smc_pc, smc_pi, smc_p, smc_i, smc_out>>
hhVars == <<hh_pc, hh_in, pol_sav_old, pol_sav, pol_cons, hh_it, hh_iz, hh_ia,
            hh_conv, hh_swept>>
plVars == <<pl_pc, caller, method, hh_ret, engine, error, k_ss>>
disVars == <<dis_pc, stationary_pdf_old, stationary_pdf, dis_it, dis_conv, dis_ret>>
mcVars == <<mc_pc, mc_in, mc_t, sim_sav, sim_z_idx, edge, at_top,
           euler_error_sim, sim_k, par_draw, par_todo, par_edge, par_ref>>
hhHist == <<hh_cell, ref_pol_sav, ref_pol_sav_old, hh_alloc>>
disHist == <<pdf_raw, ref_pdf, ref_pdf_old, ref_written, dis_alloc, dis_runs, dis_again>>
eigVars == <<eig_pc, eig_in, Q, eigen_vec_stat, eig_ret>>
eeVars == <<ee_pc, ee_in, euler_error, ee_used>>
mgVars == <<mg_pc, mg_in, grd, mg_i>>
geVars == <<ge_pc, ge_method, ge_trace, ge_error>>

vars == <<solveVars, ctorVars, smcVars, hhVars, plVars, disVars, mcVars,
          hhHist, disHist, eigVars, eeVars, mgVars, geVars>>

(* Optional / extended reals: an unbound name, np.inf, or a number.         *)
None == [k |-> "none", v |-> 0]
Inf == [k |-> "inf", v |-> 0]
Num(n) == [k |-> "num", v |-> n]
IsNum(x) == x.k = "num"

Abs(x) == IF x < 0 THEN -x ELSE x

---------------------------------------------------------------------------
(* The state of each component before it is entered.                       *)

SolveIdle ==
    /\ sm_pc = "start"
    /\ it = -1
    /\ r_guess = 0
    /\ diff = None
    /\ diff_old = None
    /\ diff_prev = None
    /\ r_ss = None
    /\ w_ss = None
    /\ r_used = None
    /\ no_conv_msg = FALSE
    /\ sm_converged = FALSE

CtorIdle ==
    /\ ctor_pc = "new"
    /\ opt = [distribution_method |-> "discrete", plott |-> 1,
              full_euler_error |-> 0, plot_supply_demand |-> 0]
    /\ attrs = {}
    /\ ctor_exc = ""
    /\ solve_started = FALSE
    /\ fz_pc = "new"
    /\ fz_opt = [distribution_method |-> "discrete", plott |-> 1,
                 full_euler_error |-> 0, plot_supply_demand |-> 0]
    /\ fz_arr = <<>>
    /\ fz_frozen = <<>>
    /\ fz_calls = 0
    /\ inst_pc = "idle"
    /\ inst_calls = 0
    /\ inst_exc = ""


---------------------------------------------------------------------------
(* Program constants of setup_parameters / solve_model, scaled.            *)

RateScale == 1000000
\* r_guess = 0.02
r_guess0 == 20000
\* self.ss_r_tol = 1e-4
ss_r_tol == 100
\* self.dp_big = 1/10, self.dp_small = 1/100 (held as the denominators)
dp_big_den == 10
dp_small_den == 100
\* self.beta = 0.96 = 24/25
beta_num == 24
beta_den == 25

(* Bound of the model: self.maxit_ss is 100 in the program.                *)
maxit_ss == 4

(* The residuals ge_algorithm can return, in units of 1e-6.  The residual  *)
(* is r_guess - r_func(k_ss), a real number computed by the household and  *)
(* distribution stages; the loop is checked for every sequence over this   *)
(* set.  Values are multiples of 100 so that both damped updates are exact.*)
(* -250000 is the residual of a pass whose k_ss is about 1.1:              *)
(* r_func(k_ss) = 0.36 * k_ss^(-0.64) - 0.08 is then about 0.27.           *)
DiffValues == {-250000, -3000, -1000, 0, 1000, 2000}

SmcIdle ==
    /\ smc_pc = "idle"
    /\ smc_pi = <<>>
    /\ smc_p = <<>>
    /\ smc_i = 0
    /\ smc_out = [k |-> "none", num |-> <<>>, den |-> 1]

NoInput == [R1 |-> 1, beta_n |-> 1, beta_d |-> 1, w |-> 0, a_min |-> 0]

HhIdle ==
    /\ hh_pc = "idle"
    /\ hh_in = NoInput
    /\ pol_sav_old = <<>>
    /\ pol_sav = <<>>
    /\ pol_cons = <<>>
    /\ hh_it = -1
    /\ hh_iz = 0
    /\ hh_ia = 0
    /\ hh_conv = FALSE
    /\ hh_swept = <<>>

PlIdle ==
    /\ pl_pc = "idle"
    /\ caller = ""
    /\ method = ""
    /\ hh_ret = [k |-> "none", pol_sav |-> <<>>, pol_cons |-> <<>>, it |-> 0]
    /\ engine = ""
    /\ error = ""
    /\ k_ss = [k |-> "none", num |-> 0, den |-> 1]

NoPdf == [num |-> <<>>, den |-> 1]

DisIdle ==
    /\ dis_pc = "idle"
    /\ stationary_pdf_old = NoPdf
    /\ stationary_pdf = NoPdf
    /\ dis_it = -1
    /\ dis_conv = FALSE
    /\ dis_ret = [k |-> "none", stationary_pdf |-> NoPdf, it |-> 0]

McIdle ==
    /\ mc_pc = "idle"
    /\ mc_in = [pol_sav |-> "", a0 |-> 0, z0 |-> <<>>]
    /\ mc_t = -1
    /\ sim_sav = <<>>
    /\ sim_z_idx = <<>>
    /\ edge = 0
    /\ at_top = {}
    /\ euler_error_sim = <<>>
    /\ sim_k = <<>>
    /\ par_draw = <<>>
    /\ par_todo = {}
    /\ par_edge = <<>>
    /\ par_ref = [sim_z_idx |-> <<>>, sim_sav |-> <<>>, euler_error_sim |-> <<>>, edge |-> 0]

NoCell ==
    [sign_lb |-> 0, sign_ub |-> 0, ub_read |-> FALSE, k |-> "none",
     iz |-> 0, ia |-> 0, prev |-> 0]

HhHistIdle ==
    /\ hh_cell = NoCell
    /\ ref_pol_sav = 0
    /\ ref_pol_sav_old = 0
    /\ hh_alloc = 0

DisHistIdle ==
    /\ pdf_raw = NoPdf
    /\ ref_pdf = 0
    /\ ref_pdf_old = 0
    /\ ref_written = 0
    /\ dis_alloc = 0
    /\ dis_runs = 0
    /\ dis_again = [k |-> "none", stationary_pdf |-> NoPdf, it |-> 0, conv |-> FALSE]

EigIdle ==
    /\ eig_pc = "idle"
    /\ eig_in = [pol_sav |-> <<>>, a_min |-> 0]
    /\ Q = <<>>
    /\ eigen_vec_stat = <<>>
    /\ eig_ret = [k |-> "none", num |-> <<>>, den |-> 1]

EeIdle ==
    /\ ee_pc = "idle"
    /\ ee_in = [pol_sav |-> <<>>, a_min |-> 0]
    /\ euler_error = <<>>
    /\ ee_used = {}

MgIdle ==
    /\ mg_pc = "idle"
    /\ mg_in = [min_val |-> 0, max_val |-> 0, num |-> 0, curv |-> 0]
    /\ grd = <<>>
    /\ mg_i = 0

GeIdle ==
    /\ ge_pc = "idle"
    /\ ge_method = ""
    /\ ge_trace = <<>>
    /\ ge_error = ""

Idle == /\ SolveIdle /\ CtorIdle /\ SmcIdle /\ HhIdle /\ PlIdle /\ DisIdle /\ McIdle
        /\ HhHistIdle /\ DisHistIdle /\ EigIdle /\ EeIdle /\ MgIdle /\ GeIdle

---------------------------------------------------------------------------
(* AiyagariPFISmall.__init__, setup_parameters, setup_grid: lines 72-183   *)
(*                                                                         *)
(* The instance is held as the set of attribute names that are set.  A     *)
(* step that reads an attribute that is not set ends the construction with *)
(* AttributeError.  Only the attributes that some step sets conditionally, *)
(* and the ones those steps read, are tracked.                             *)

Methods == {"discrete", "eigenvector", "monte carlo"}
\* argument values tried: the three methods and a misspelt one; flags 0, 1, 2
MethodInputs == Methods \cup {"montecarlo"}
FlagInputs == {0, 1, 2}

\* Python truth value of an int flag
Truthy(x) == x # 0

\* line 99
ValidMethod_Any(m) == TRUE
ValidMethod(m) == ~(m # "discrete" /\ m # "eigenvector" /\ m # "monte carlo")

\* line 136 and line 182: the fine grid is wanted
WantsFine(o) ==
    o.distribution_method = "discrete" \/ o.distribution_method = "eigenvector"
        \/ Truthy(o.full_euler_error)

\* line 141: "self.graph_supply_demand" is the bound method, which is truthy
WantsDis(o) == o.distribution_method = "discrete" \/ TRUE

\* line 91
PacksDiscrete(o) ==
    o.distribution_method = "discrete" \/ Truthy(o.plot_supply_demand)

IsMC(o) == o.distribution_method = "monte carlo"

\* attributes setup_parameters sets, lines 115-161
ParamAttrs(o) ==
    {"beta", "pi", "grid_z", "sigma", "maxit_hh", "tol_hh", "Nz", "Na",
     "a_min", "a_max", "curv", "ss_r_tol", "dp_big", "dp_small", "maxit_ss",
     "rho", "r_cm", "k_cm"}
    \cup (IF WantsFine(o) THEN {"Na_fine"} ELSE {})
    \cup (IF WantsDis(o) THEN {"tol_dis", "maxit_dis"} ELSE {})
    \cup (IF IsMC(o) THEN {"seed", "simN", "simT", "sim_burnin", "init_asset", "a0"}
                     ELSE {})

\* attributes setup_grid reads / sets, lines 167-183
GridReads(o) ==
    {"a_min", "a_max", "Na", "curv", "pi", "grid_z"}
    \cup (IF IsMC(o) THEN {"simN"} ELSE {})
    \cup (IF WantsFine(o) THEN {"Na_fine"} ELSE {})
GridAttrs(o) ==
    {"grid_a", "pi_stat", "grid_z"}
    \cup (IF IsMC(o) THEN {"z0"} ELSE {})
    \cup (IF WantsFine(o) THEN {"grid_a_fine"} ELSE {})

\* attributes the packing of lines 89-95 reads / sets
PackReads(o) ==
    {"beta", "pi", "grid_a", "grid_z", "sigma", "maxit_hh", "tol_hh"}
    \cup (IF PacksDiscrete(o)
          THEN {"grid_a", "grid_a_fine", "Nz", "pi", "pi_stat", "maxit_dis", "tol_dis"}
          ELSE {})
    \cup (IF IsMC(o)
          THEN {"a0", "z0", "simN", "simT", "grid_z", "grid_a", "sigma", "beta",
                "pi", "seed"}
          ELSE {})
PackAttrs(o) ==
    {"params_pfi"}
    \cup (IF PacksDiscrete(o) THEN {"params_discrete"} ELSE {})
    \cup (IF IsMC(o) THEN {"params_sim"} ELSE {})

\* lines 72-82: the call, with its arguments
Ctor_Enter(m, p, f, s) ==
    /\ ctor_pc = "new"
    /\ opt' = [distribution_method |-> m, plott |-> p,
               full_euler_error |-> f, plot_supply_demand |-> s]
    /\ attrs' = {"a_bar", "plott", "full_euler_error", "distribution_method",
                 "plot_supply_demand"}
    /\ ctor_pc' = "setup_parameters"
    /\ UNCHANGED <<ctor_exc, solve_started>>
    /\ UNCHANGED <<fzVars, instVars>>
    /\ UNCHANGED <<solveVars, smcVars, hhVars, plVars, disVars, mcVars,
                 hhHist, disHist, eigVars, eeVars, mgVars, geVars>>

\* line 84
Ctor_SetupParameters ==
    /\ ctor_pc = "setup_parameters"
    /\ attrs' = attrs \cup ParamAttrs(opt)
    /\ ctor_pc' = "setup_grid"
    /\ UNCHANGED <<opt, ctor_exc, solve_started>>
    /\ UNCHANGED <<fzVars, instVars>>
    /\ UNCHANGED <<solveVars, smcVars, hhVars, plVars, disVars, mcVars,
                 hhHist, disHist, eigVars, eeVars, mgVars, geVars>>

\* line 85
Ctor_SetupGrid ==
    /\ ctor_pc = "setup_grid"
    /\ IF GridReads(opt) \subseteq attrs
       THEN /\ attrs' = attrs \cup GridAttrs(opt)
            /\ ctor_pc' = "pack"
            /\ UNCHANGED ctor_exc
       ELSE /\ ctor_exc' = "AttributeError"
            /\ ctor_pc' = "failed"
            /\ UNCHANGED attrs
    /\ UNCHANGED <<opt, solve_started>>
    /\ UNCHANGED <<fzVars, instVars>>
    /\ UNCHANGED <<solveVars, smcVars, hhVars, plVars, disVars, mcVars,
                 hhHist, disHist, eigVars, eeVars, mgVars, geVars>>

\* lines 89-95
Ctor_Pack ==
    /\ ctor_pc = "pack"
    /\ IF PackReads(opt) \subseteq attrs
       THEN /\ attrs' = attrs \cup PackAttrs(opt)
            /\ ctor_pc' = "validate"
            /\ UNCHANGED ctor_exc
       ELSE /\ ctor_exc' = "AttributeError"
            /\ ctor_pc' = "failed"
            /\ UNCHANGED attrs
    /\ UNCHANGED <<opt, solve_started>>
    /\ UNCHANGED <<fzVars, instVars>>
    /\ UNCHANGED <<solveVars, smcVars, hhVars, plVars, disVars, mcVars,
                 hhHist, disHist, eigVars, eeVars, mgVars, geVars>>

\* lines 99-106
Ctor_Validate ==
    /\ ctor_pc = "validate"
    /\ IF ~ValidMethod(opt.distribution_method)
       THEN ctor_exc' = "Exception: distribution method" /\ ctor_pc' = "failed"
       ELSE IF opt.plott # 1 /\ opt.plott # 0
       THEN ctor_exc' = "Exception: plot option" /\ ctor_pc' = "failed"
       ELSE IF opt.full_euler_error # 1 /\ opt.full_euler_error # 0
       THEN ctor_exc' = "Exception: euler error option" /\ ctor_pc' = "failed"
       ELSE ctor_exc' = "" /\ ctor_pc' = "constructed"
    /\ UNCHANGED <<opt, attrs, solve_started>>
    /\ UNCHANGED <<fzVars, instVars>>
    /\ UNCHANGED <<solveVars, smcVars, hhVars, plVars, disVars, mcVars,
                 hhHist, disHist, eigVars, eeVars, mgVars, geVars>>

\* lines 1191-1192: solve_model is a method of a constructed instance
Ctor_CallSolve ==
    /\ ctor_pc = "constructed"
    /\ ~solve_started
    /\ solve_started' = TRUE
    /\ UNCHANGED <<ctor_pc, opt, attrs, ctor_exc>>
    /\ UNCHANGED <<fzVars, instVars>>
    /\ UNCHANGED <<solveVars, smcVars, hhVars, plVars, disVars, mcVars,
                 hhHist, disHist, eigVars, eeVars, mgVars, geVars>>

InitCtor == Idle

NextCtor ==
    \/ \E m \in MethodInputs, p \in FlagInputs, f \in FlagInputs, s \in {0, 1} :
          Ctor_Enter(m, p, f, s)
    \/ Ctor_SetupParameters
    \/ Ctor_SetupGrid
    \/ Ctor_Pack
    \/ Ctor_Validate
    \/ Ctor_CallSolve

SpecCtor == InitCtor /\ [][NextCtor]_vars

\* C6: constructing with a distribution_method other than 'discrete',
\* 'eigenvector' or 'monte carlo' fails during construction, whatever the
\* other options, so solve_model never starts with an invalid method name.
C6_InvalidMethodFails ==
    /\ (ctor_pc = "constructed" => opt.distribution_method \in Methods)
    /\ (solve_started => opt.distribution_method \in Methods)
C6_Witness ==
    /\ ctor_pc = "failed"
    /\ opt.distribution_method \notin Methods
    /\ ctor_exc = "Exception: distribution method"

---------------------------------------------------------------------------
(* solve_model called on a constructed instance, lines 607-790             *)
(*                                                                         *)
(* The instance is the set attrs of the construction, extended by the      *)
(* attributes solve_model sets.  A stage that reads an attribute that is   *)
(* not set raises AttributeError; "k_demand" is in attrs once an instance  *)
(* attribute of that name hides the method k_demand (line 708), and a call *)
(* self.k_demand(...) then raises TypeError.  The numerical outcome of a   *)
(* stage is followed in the specifications of the stages themselves: here  *)
(* every stage that finds its attributes completes.                        *)

\* bound of the model: the number of calls of solve_model on one instance
MaxSolves == 2

\* lines 616-645 with ge_algorithm, lines 494-597: attributes read / set
EquilibriumReads(o) ==
    {"beta", "maxit_ss", "ss_r_tol", "dp_big", "dp_small", "params_pfi",
     "maxit_hh", "distribution_method"}
    \cup (IF o.distribution_method = "discrete"
          THEN {"params_discrete", "maxit_dis", "grid_a_fine"} ELSE {})
    \cup (IF o.distribution_method = "eigenvector"
          THEN {"Nz", "Na_fine", "grid_a", "grid_a_fine", "pi"} ELSE {})
    \cup (IF IsMC(o) THEN {"params_sim", "sim_burnin"} ELSE {})
EquilibriumAttrs(o) ==
    {"pol_sav", "pol_cons", "it_hh", "k_ss"}
    \cup (IF o.distribution_method = "discrete"
          THEN {"stationary_pdf", "it_pdf", "stationary_wealth_pdf"} ELSE {})
    \cup (IF o.distribution_method = "eigenvector"
          THEN {"stationary_pdf", "Q", "stationary_wealth_pdf"} ELSE {})
    \cup (IF IsMC(o)
          THEN {"ss_sim_k", "ss_sim_sav", "ss_sim_z", "ss_sim_c", "ss_sim_m",
                "euler_error_sim", "max_error_sim", "avg_error_sim"}
          ELSE {})

\* lines 651-653
PriceReads == {"r_cm"}
PriceAttrs == {"r_ss", "w_ss", "precaution_save"}

\* lines 659-662 with ee_error, lines 391-436
EulerReads(o) ==
    {"full_euler_error"}
    \cup (IF Truthy(o.full_euler_error)
          THEN {"Nz", "Na_fine", "grid_z", "grid_a_fine", "grid_a", "pol_sav", "pi",
                "beta", "sigma", "r_ss", "w_ss"}
          ELSE {})
EulerAttrs(o) ==
    IF Truthy(o.full_euler_error) THEN {"euler_error", "max_error", "avg_error"}
    ELSE {}

\* lines 675-703: the plots made before the supply and demand graph
PlotReads(o) ==
    {"plott"}
    \cup (IF Truthy(o.plott)
          THEN {"grid_a", "pol_sav", "a_bar", "a_max", "grid_z", "pol_cons",
                "full_euler_error", "plot_supply_demand"}
               \cup (IF Truthy(o.full_euler_error) THEN {"grid_a_fine", "euler_error"}
                     ELSE {})
          ELSE {})

\* lines 704-708: the supply and demand graph is made
Graphs(o) == Truthy(o.plott) /\ Truthy(o.plot_supply_demand)
\* line 707 and graph_supply_demand, lines 457-482
GraphReads == {"rho", "params_pfi", "params_discrete", "grid_a_fine"}
GraphAttrs == {"r_vec", "k_demand", "k_supply"}

\* lines 716-790: the density plots and the printed summary
ReportReads(o) ==
    {"k_ss", "precaution_save", "k_cm", "distribution_method", "full_euler_error"}
    \cup (IF Truthy(o.plott) /\ ~IsMC(o)
          THEN {"grid_a_fine", "stationary_pdf", "stationary_wealth_pdf", "grid_z"}
          ELSE {})
    \cup (IF Truthy(o.plott) /\ IsMC(o) THEN {"ss_sim_sav"} ELSE {})
    \cup (IF Truthy(o.full_euler_error) THEN {"max_error", "avg_error"} ELSE {})
    \cup (IF IsMC(o) THEN {"max_error_sim", "avg_error_sim"} ELSE {})

\* a stage that reads the attributes rd and sets the attributes wr
Stage(from, to, rd, wr) ==
    /\ inst_pc = from
    /\ IF rd \subseteq attrs
       THEN /\ attrs' = attrs \cup wr
            /\ inst_pc' = to
            /\ UNCHANGED inst_exc
       ELSE /\ inst_exc' = "AttributeError"
            /\ inst_pc' = "raised"
            /\ UNCHANGED attrs
    /\ UNCHANGED <<ctor_pc, opt, ctor_exc, solve_started, fzVars, inst_calls>>
    /\ UNCHANGED <<solveVars, smcVars, hhVars, plVars, disVars, mcVars,
                 hhHist, disHist, eigVars, eeVars, mgVars, geVars>>

\* lines 1191-1192, and any later call on the same instance
INST_Call ==
    /\ ctor_pc = "constructed"
    /\ inst_pc \in {"idle", "done"}
    /\ inst_calls < MaxSolves
    /\ inst_calls' = inst_calls + 1
    /\ inst_pc' = "equilibrium"
    /\ UNCHANGED <<ctor_pc, opt, attrs, ctor_exc, solve_started, fzVars, inst_exc>>
    /\ UNCHANGED <<solveVars, smcVars, hhVars, plVars, disVars, mcVars,
                 hhHist, disHist, eigVars, eeVars, mgVars, geVars>>

INST_Equilibrium ==
    Stage("equilibrium", "prices", EquilibriumReads(opt), EquilibriumAttrs(opt))
INST_Prices == Stage("prices", "euler", PriceReads, PriceAttrs)
INST_Euler == Stage("euler", "plot", EulerReads(opt), EulerAttrs(opt))
INST_Plot ==
    Stage("plot", IF Graphs(opt) THEN "graph" ELSE "report", PlotReads(opt), {})

\* lines 707-708: self.k_demand(r_graph) at line 463 is a call of whatever
\* the name k_demand is bound to on the instance
INST_Graph ==
    /\ inst_pc = "graph"
    /\ IF ~(GraphReads \subseteq attrs)
       THEN /\ inst_exc' = "AttributeError"
            /\ inst_pc' = "raised"
            /\ UNCHANGED attrs
       ELSE IF "k_demand" \in attrs
       THEN /\ inst_exc' = "TypeError"
            /\ inst_pc' = "raised"
            /\ attrs' = attrs \cup {"r_vec"}
       ELSE /\ attrs' = attrs \cup GraphAttrs
            /\ inst_pc' = "report"
            /\ UNCHANGED inst_exc
    /\ UNCHANGED <<ctor_pc, opt, ctor_exc, solve_started, fzVars, inst_calls>>
    /\ UNCHANGED <<solveVars, smcVars, hhVars, plVars, disVars, mcVars,
                 hhHist, disHist, eigVars, eeVars, mgVars, geVars>>

INST_Report == Stage("report", "done", ReportReads(opt), {})

InitInst == Idle

NextInst ==
    \/ \E m \in MethodInputs, p \in FlagInputs, f \in FlagInputs, s \in {0, 1} :
          Ctor_Enter(m, p, f, s)
    \/ Ctor_SetupParameters
    \/ Ctor_SetupGrid
    \/ Ctor_Pack
    \/ Ctor_Validate
    \/ INST_Call
    \/ INST_Equilibrium
    \/ INST_Prices
    \/ INST_Euler
    \/ INST_Plot
    \/ INST_Graph
    \/ INST_Report

SpecInst == InitInst /\ [][NextInst]_vars

\* the options the constructor accepts
ValidOptions(o) ==
    /\ o.distribution_method \in Methods
    /\ o.plott \in {0, 1}
    /\ o.full_euler_error \in {0, 1}
    /\ o.plot_supply_demand \in {0, 1}

\* C29: for every combination of valid options, neither the construction
\* nor solve_model reads an attribute that has not been set.
C29_NoUnsetAttributeRead ==
    (ctor_pc # "new" /\ ValidOptions(opt)) =>
        (ctor_exc # "AttributeError" /\ inst_exc # "AttributeError")

\* C30: for every combination of valid options, a second call of
\* solve_model on an instance whose first call completed completes too,
\* and no method of the instance is hidden by an attribute a call has set.
C30_SolveRepeatable ==
    (ValidOptions(opt) /\ inst_calls = 2) =>
        (inst_pc # "raised" /\ "k_demand" \notin attrs)

---------------------------------------------------------------------------
(* AiyagariPFISmall.stationary_mc, lines 208-231                           *)
(*                                                                         *)
(* A matrix is a sequence of rows; an entry e stands for the real e/PiDen. *)
(* The returned vector is held exactly, as numerators over one denominator.*)

\* self.pi = [[3/4, 1/4], [1/4, 3/4]]: the probabilities are quarters
PiDen == 4
\* self.Nz = 2: matrices of up to Nz rows are solved
Nz == 2

\* the entries and shapes of the matrices stationary_mc is called with
EntryInputs == {0, 1, 3, 4}
ShapeInputs == {<<1, 1>>, <<1, 2>>, <<2, 1>>, <<2, 2>>, <<2, 3>>}
MatrixInputs ==
    UNION {[1..sh[1] -> [1..sh[2] -> EntryInputs]] : sh \in ShapeInputs}

NRows(m) == Len(m)
NCols(m) == Len(m[1])

RECURSIVE SumSeq(_)
SumSeq(sq) == IF sq = <<>> THEN 0 ELSE sq[1] + SumSeq(Tail(sq))

IsSquare(m) == NRows(m) = NCols(m)
RowStochastic(m) == \A i \in 1..NRows(m) : SumSeq(m[i]) = PiDen

\* lines 224-226: the first nrows-1 columns of p (a slice stops at the last
\* column there is), then a column of ones
BuildQ(p) ==
    LET n == NRows(p)
        k == IF n - 1 < NCols(p) THEN n - 1 ELSE NCols(p)
    IN  [i \in 1..n |-> [j \in 1..(k + 1) |-> IF j <= k THEN p[i][j] ELSE PiDen]]

\* determinant of the scaled matrix q (1 by 1 or 2 by 2)
Det(q) ==
    IF NRows(q) = 1 THEN q[1][1]
    ELSE q[1][1] * q[2][2] - q[1][2] * q[2][1]

\* line 231: np.dot(x, np.linalg.inv(q)) with x = (0,...,0,1) is the last row
\* of the inverse: the last row of the adjugate over the determinant
LastRowOfInverse(q) ==
    IF NRows(q) = 1
    THEN [k |-> "vector", num |-> <<PiDen>>, den |-> Det(q)]
    ELSE [k |-> "vector", num |-> <<-(PiDen * q[2][1]), PiDen * q[1][1]>>,
          den |-> Det(q)]

\* np.linalg.inv raises LinAlgError for a matrix that is not square or is
\* singular
Solve(q) ==
    IF NRows(q) # NCols(q) \/ Det(q) = 0
    THEN [k |-> "LinAlgError", num |-> <<>>, den |-> 1]
    ELSE LastRowOfInverse(q)

\* lines 219-220
SMC_Call(m) ==
    /\ smc_pc = "idle"
    /\ smc_pi' = m
    /\ smc_p' = m
    /\ smc_i' = 0
    /\ smc_pc' = "diag"
    /\ UNCHANGED smc_out
    /\ UNCHANGED <<solveVars, ctorVars, hhVars, plVars, disVars, mcVars,
                 hhHist, disHist, eigVars, eeVars, mgVars, geVars>>

\* lines 221-222: p[i,i] = p[i,i] - 1, IndexError when column i is missing
SMC_Diag ==
    /\ smc_pc = "diag"
    /\ smc_i < NRows(smc_p)
    /\ IF smc_i + 1 <= NCols(smc_p)
       THEN /\ smc_p' = [smc_p EXCEPT ![smc_i + 1][smc_i + 1] = @ - PiDen]
            /\ smc_i' = smc_i + 1
            /\ UNCHANGED <<smc_pc, smc_out>>
       ELSE /\ smc_out' = [k |-> "IndexError", num |-> <<>>, den |-> 1]
            /\ smc_pc' = "raised"
            /\ UNCHANGED <<smc_p, smc_i>>
    /\ UNCHANGED smc_pi
    /\ UNCHANGED <<solveVars, ctorVars, hhVars, plVars, disVars, mcVars,
                 hhHist, disHist, eigVars, eeVars, mgVars, geVars>>

\* lines 224-231
SMC_Solve ==
    /\ smc_pc = "diag"
    /\ ~(smc_i < NRows(smc_p))
    /\ smc_out' = Solve(BuildQ(smc_p))
    /\ smc_pc' = IF Solve(BuildQ(smc_p)).k = "vector" THEN "returned" ELSE "raised"
    /\ UNCHANGED <<smc_pi, smc_p, smc_i>>
    /\ UNCHANGED <<solveVars, ctorVars, hhVars, plVars, disVars, mcVars,
                 hhHist, disHist, eigVars, eeVars, mgVars, geVars>>

InitStat == Idle

NextStat ==
    \/ \E m \in MatrixInputs : SMC_Call(m)
    \/ SMC_Diag
    \/ SMC_Solve

SpecStat == InitStat /\ [][NextStat]_vars

\* C7: stationary_mc(P) fails (returns no probability vector) whenever P is
\* not square or some row of P does not sum to 1.
C7_RejectsNonStochastic ==
    smc_pc = "returned" => (IsSquare(smc_pi) /\ RowStochastic(smc_pi))

\* x is a probability vector that the matrix m leaves fixed
IsStationary(x, m) ==
    /\ \A i \in 1..Len(x.num) : x.num[i] * x.den >= 0
    /\ SumSeq(x.num) = x.den
    /\ Len(x.num) = NRows(m)
    /\ \A j \in 1..NCols(m) :
          SumSeq([i \in 1..NRows(m) |-> x.num[i] * m[i][j]]) = x.num[j] * PiDen

\* C15: for every row-stochastic transition matrix P, stationary_mc(P)
\* returns a vector x with all entries >= 0, summing to 1, with x = xP.
C15_ReturnsStationaryVector ==
    (smc_pc \in {"returned", "raised"} /\ IsSquare(smc_pi) /\ RowStochastic(smc_pi)) =>
        (smc_pc = "returned" /\ IsStationary(smc_out, smc_pi))

---------------------------------------------------------------------------
(* solve_hh and euler_eq_residual, lines 841-963                           *)
(*                                                                         *)
(* Assets live on the integer lattice.  The asset grid has spacing 2, so   *)
(* that np.interp between two grid points is a half-integer: interpolated  *)
(* values and consumptions are held doubled.  1 + r is an integer R1, so   *)
(* that cash on hand (1+r)a + w z is a lattice point.  The marginal utility*)
(* is c^(-sigma) with sigma = 2 (line 115), floored at eps = 1e-8: the     *)
(* residual's sign is computed exactly, u'(eps) = 1e16 counting as larger  *)
(* than any marginal utility of a positive lattice consumption.            *)

\* bounds of the model: self.Na is 200, self.maxit_hh is 2000 and
\* self.tol_hh is 1e-6 in the program (tol_hh in lattice units)
Na == 2
maxit_hh == 3
tol_hh == 1
\* spacing of the asset grid, and the factor interpolated values are held by
GridStep == 2

\* self.grid_z after line 174, doubled: (0.5, 1.5)
grid_z == <<1, 3>>
\* self.pi, entries over PiDen
pi == <<<<3, 1>>, <<1, 3>>>>

\* the asset grid for borrowing limit a_min
GridA(a_min) == [i \in 1..Na |-> a_min + GridStep * (i - 1)]

\* the arguments solve_hh is called with: 1+r, beta, the wage and the
\* borrowing limit self.a_bar
HHInputs ==
    {[R1 |-> x[1], beta_n |-> x[2], beta_d |-> x[3], w |-> 1, a_min |-> x[4]] :
        x \in {<<1, 24, 25, 0>>, <<1, 1, 4, 0>>, <<2, 1, 2, 0>>, <<1, 24, 25, -2>>,
               <<1, 1, 2, -2>>, <<2, 1, 4, -2>>, <<2, 24, 25, -2>>,
               <<2, 1, 2, -2>>, <<1, 1, 3, 0>>}}

Sign(x) == IF x > 0 THEN 1 ELSE IF x < 0 THEN -1 ELSE 0
Sq(x) == x * x
Max(a, b) == IF a >= b THEN a ELSE b
Min(a, b) == IF a <= b THEN a ELSE b

\* np.interp(x, grid, y), times GridStep: linear inside the grid, flat outside
Interp2(grid, y, x) ==
    IF x <= grid[1] THEN GridStep * y[1]
    ELSE IF x >= grid[Len(grid)] THEN GridStep * y[Len(grid)]
    ELSE LET k == CHOOSE k \in 1..(Len(grid) - 1) : grid[k] <= x /\ x < grid[k + 1]
         IN  (GridStep * (y[k] * (grid[k + 1] - x) + y[k + 1] * (x - grid[k])))
                 \div (grid[k + 1] - grid[k])

\* line 881 / 908: (1+r)*a + w*z
Budget(in, a, iz) == in.R1 * a + in.w * grid_z[iz]

\* lines 944 and 950, doubled
Cons2(in, a, iz, a_plus) == GridStep * Budget(in, a, iz) - GridStep * a_plus
ConsPlus2(in, old, a_plus, izz) ==
    GridStep * in.R1 * a_plus + GridStep * in.w * grid_z[izz]
        - Interp2(GridA(in.a_min), old[izz], a_plus)

\* np.sign(euler_eq_residual(a_plus, params_eer)), lines 926-963:
\* the sign of u'(c) - (1+r) beta sum_j pi[i_z,j] u'(c_plus_j)
EulerSign(in, old, a, iz, a_plus) ==
    LET c == Cons2(in, a, iz, a_plus)
        c1 == ConsPlus2(in, old, a_plus, 1)
        c2 == ConsPlus2(in, old, a_plus, 2)
        \* the multiples of u'(eps) on the two sides
        hl == IF c <= 0 THEN in.beta_d * PiDen ELSE 0
        hr == in.R1 * in.beta_n * ((IF c1 <= 0 THEN pi[iz][1] ELSE 0)
                                    + (IF c2 <= 0 THEN pi[iz][2] ELSE 0))
        \* the rest, both sides multiplied by the squares of the positive c's
        p == IF c > 0 THEN c ELSE 1
        p1 == IF c1 > 0 THEN c1 ELSE 1
        p2 == IF c2 > 0 THEN c2 ELSE 1
        fl == IF c > 0 THEN in.beta_d * PiDen * Sq(p1) * Sq(p2) ELSE 0
        fr == in.R1 * in.beta_n * Sq(p)
                * ((IF c1 > 0 THEN pi[iz][1] * Sq(p2) ELSE 0)
                   + (IF c2 > 0 THEN pi[iz][2] * Sq(p1) ELSE 0))
    IN  IF hl # hr THEN Sign(hl - hr) ELSE Sign(fl - fr)

\* qe.optimize.root_finding.brentq(f, lb, ub), line 905: an end point where
\* f is zero (ub first), else the lattice point just below a sign change of f
Brentq(F(_), lb, ub) ==
    LET lo == Min(lb, ub)
        hi == Max(lb, ub)
        crossings == {x \in lo..(hi - 1) : F(x) # 0 /\ F(x) * F(x + 1) <= 0}
    IN  IF F(ub) = 0 THEN ub
        ELSE IF F(lb) = 0 THEN lb
        ELSE CHOOSE x \in crossings : \A y \in crossings : x <= y

\* lines 880-905: the value written to pol_sav[i_z, i_a], or the exception
CellResult_ZeroIsCorner(in, old, iz, ia) ==
    LET a == GridA(in.a_min)[ia]
        lb_aplus == GridA(in.a_min)[1]
        ub_aplus == Budget(in, a, iz)
        F(x) == EulerSign(in, old, a, iz, x)
    IN  IF F(lb_aplus) >= 0 THEN [k |-> "corner", v |-> lb_aplus]
        ELSE IF F(lb_aplus) * F(ub_aplus) = 1 THEN [k |-> "Exception", v |-> 0]
        ELSE [k |-> "root", v |-> Brentq(F, lb_aplus, ub_aplus)]

CellResult_NoSignCheck(in, old, iz, ia) ==
    LET a == GridA(in.a_min)[ia]
        lb_aplus == GridA(in.a_min)[1]
        ub_aplus == Budget(in, a, iz)
        F(x) == EulerSign(in, old, a, iz, x)
    IN  IF F(lb_aplus) = 1 THEN [k |-> "corner", v |-> lb_aplus]
        ELSE IF F(lb_aplus) * F(ub_aplus) = 1 THEN [k |-> "root", v |-> lb_aplus]
        ELSE [k |-> "root", v |-> Brentq(F, lb_aplus, ub_aplus)]

CellResult(in, old, iz, ia) ==
    LET a == GridA(in.a_min)[ia]
        lb_aplus == GridA(in.a_min)[1]
        ub_aplus == Budget(in, a, iz)
        F(x) == EulerSign(in, old, a, iz, x)
        eulersign_lb == F(lb_aplus)
        eulersign_ub == F(ub_aplus)
    IN  IF eulersign_lb = 1 THEN [k |-> "corner", v |-> lb_aplus]
        ELSE IF eulersign_lb * eulersign_ub = 1 THEN [k |-> "Exception", v |-> 0]
        ELSE [k |-> "root", v |-> Brentq(F, lb_aplus, ub_aplus)]

\* lines 879-905 for the cell (iz, ia): the signs of the residual at the two
\* ends of the bracket, whether solve_hh evaluates the one at ub_aplus (only
\* in the else branch of line 888), the branch taken, and the value
\* pol_sav[i_z, i_a] held before
CellDecision(in, old, cur, iz, ia) ==
    LET a == GridA(in.a_min)[ia]
        sign_lb == EulerSign(in, old, a, iz, GridA(in.a_min)[1])
        sign_ub == EulerSign(in, old, a, iz, Budget(in, a, iz))
    IN  [sign_lb |-> sign_lb,
         sign_ub |-> sign_ub,
         ub_read |-> sign_lb # 1,
         k |-> CellResult(in, old, iz, ia).k,
         iz |-> iz, ia |-> ia, prev |-> cur[iz][ia]]

\* np.copy(x), lines 917 and 1185: a new array object
CopyOf_Alias(ref, fresh) == ref
CopyOf(ref, fresh) == fresh

Zeros == [iz \in 1..Nz |-> [ia \in 1..Na |-> 0]]

\* np.abs(pol_sav-pol_sav_old).max(), line 912
SupNorm(x, y) ==
    LET d == {Abs(x[iz][ia] - y[iz][ia]) : iz \in 1..Nz, ia \in 1..Na}
    IN  CHOOSE m \in d : \A e \in d : e <= m

\* line 908: the consumption row of the budget constraint
ConsRow_FromOld(in, sav, old, iz) ==
    [ia \in 1..Na |-> Budget(in, GridA(in.a_min)[ia], iz) - old[iz][ia]]
ConsRow(in, sav, old, iz) ==
    [ia \in 1..Na |-> Budget(in, GridA(in.a_min)[ia], iz) - sav[iz][ia]]

\* lines 860-867, entered from line 506 (ge_algorithm) or line 470
\* (graph_supply_demand)
HH_Call(c, m, in) ==
    /\ pl_pc = "idle"
    /\ hh_pc = "idle"
    /\ caller' = c
    /\ method' = m
    /\ pl_pc' = "solve_hh"
    /\ hh_in' = in
    /\ pol_sav_old' = Zeros
    /\ pol_sav' = Zeros
    /\ pol_cons' = Zeros
    /\ ref_pol_sav_old' = hh_alloc + 1
    /\ ref_pol_sav' = hh_alloc + 2
    /\ hh_alloc' = hh_alloc + 3
    /\ hh_cell' = NoCell
    /\ hh_it' = 0
    /\ hh_iz' = 1
    /\ hh_ia' = 1
    /\ hh_pc' = "cell"
    /\ UNCHANGED <<hh_conv, hh_swept, hh_ret, engine, error, k_ss>>
    /\ UNCHANGED <<solveVars, ctorVars, smcVars, disVars, mcVars,
                   disHist, eigVars, eeVars, mgVars, geVars>>

\* lines 876-905: one grid point
HH_Cell ==
    /\ hh_pc = "cell"
    /\ LET res == CellResult(hh_in, pol_sav_old, hh_iz, hh_ia)
       IN  IF res.k = "Exception"
           THEN /\ hh_pc' = "raised"
                /\ pl_pc' = "raised"
                /\ error' = "Sign of lower bound and upperbound are the same"
                /\ UNCHANGED <<pol_sav, pol_sav_old, hh_ia>>
           ELSE /\ pol_sav' = [pol_sav EXCEPT ![hh_iz][hh_ia] = res.v]
                /\ pol_sav_old' = IF ref_pol_sav_old = ref_pol_sav
                                  THEN [pol_sav_old EXCEPT ![hh_iz][hh_ia] = res.v]
                                  ELSE pol_sav_old
                /\ hh_ia' = IF hh_ia < Na THEN hh_ia + 1 ELSE hh_ia
                /\ hh_pc' = IF hh_ia < Na THEN "cell" ELSE "cons"
                /\ UNCHANGED <<pl_pc, error>>
    /\ hh_cell' = CellDecision(hh_in, pol_sav_old, pol_sav, hh_iz, hh_ia)
    /\ UNCHANGED <<ref_pol_sav, ref_pol_sav_old, hh_alloc>>
    /\ UNCHANGED <<hh_in, pol_cons, hh_it, hh_iz, hh_conv, hh_swept>>
    /\ UNCHANGED <<caller, method, hh_ret, engine, k_ss>>
    /\ UNCHANGED <<solveVars, ctorVars, smcVars, disVars, mcVars,
                   disHist, eigVars, eeVars, mgVars, geVars>>

\* line 908, then the next i_z of line 875
HH_Cons ==
    /\ hh_pc = "cons"
    /\ pol_cons' = [pol_cons EXCEPT ![hh_iz] = ConsRow(hh_in, pol_sav, pol_sav_old, hh_iz)]
    /\ hh_iz' = IF hh_iz < Nz THEN hh_iz + 1 ELSE hh_iz
    /\ hh_ia' = IF hh_iz < Nz THEN 1 ELSE hh_ia
    /\ hh_pc' = IF hh_iz < Nz THEN "cell" ELSE "norm"
    /\ UNCHANGED <<hh_in, pol_sav_old, pol_sav, hh_it, hh_conv, hh_swept>>
    /\ UNCHANGED plVars
    /\ UNCHANGED <<solveVars, ctorVars, smcVars, disVars, mcVars,
                 hhHist, disHist, eigVars, eeVars, mgVars, geVars>>

\* lines 912-917, then the next it of line 874 or the end of the loop
HH_Norm ==
    /\ hh_pc = "norm"
    /\ hh_swept' = pol_sav
    /\ IF SupNorm(pol_sav, pol_sav_old) < tol_hh
       THEN /\ hh_conv' = TRUE
            /\ hh_pc' = "return"
            /\ UNCHANGED <<pol_sav_old, hh_it, hh_iz, hh_ia>>
            /\ UNCHANGED <<ref_pol_sav_old, hh_alloc>>
       ELSE /\ pol_sav_old' = pol_sav
            /\ ref_pol_sav_old' = CopyOf(ref_pol_sav, hh_alloc + 1)
            /\ hh_alloc' = hh_alloc + 1
            /\ UNCHANGED hh_conv
            /\ IF hh_it + 1 < maxit_hh
               THEN /\ hh_it' = hh_it + 1
                    /\ hh_iz' = 1
                    /\ hh_ia' = 1
                    /\ hh_pc' = "cell"
               ELSE /\ hh_pc' = "return"
                    /\ UNCHANGED <<hh_it, hh_iz, hh_ia>>
    /\ UNCHANGED <<hh_in, pol_sav, pol_cons>>
    /\ UNCHANGED <<hh_cell, ref_pol_sav>>
    /\ UNCHANGED plVars
    /\ UNCHANGED <<solveVars, ctorVars, smcVars, disVars, mcVars,
                   disHist, eigVars, eeVars, mgVars, geVars>>

\* line 921
HH_Return ==
    /\ hh_pc = "return"
    /\ hh_ret' = [k |-> "tuple", pol_sav |-> pol_sav, pol_cons |-> pol_cons,
                  it |-> hh_it]
    /\ hh_pc' = "done"
    /\ pl_pc' = IF caller = "ge_algorithm" THEN "check_hh" ELSE "distribution"
    /\ UNCHANGED <<hh_in, pol_sav_old, pol_sav, pol_cons, hh_it, hh_iz, hh_ia,
                   hh_conv, hh_swept>>
    /\ UNCHANGED <<caller, method, engine, error, k_ss>>
    /\ UNCHANGED <<solveVars, ctorVars, smcVars, disVars, mcVars,
                 hhHist, disHist, eigVars, eeVars, mgVars, geVars>>

---------------------------------------------------------------------------
(* discrete_stationary_density, lines 1108-1187                            *)
(*                                                                         *)
(* A density is held exactly, as integer numerators over one denominator.  *)
(* The fine grid holds every lattice point from a_min to a_max, so that    *)
(* the weight p0 of line 1167 is 0 or 1/2 (held doubled).                  *)

\* bounds of the model: self.maxit_dis is 2000 and self.tol_dis is 1e-6 in
\* the program (the tolerance here is 1/tol_dis_den)
maxit_dis == 3
tol_dis_den == 16

\* self.grid_a_fine, line 183: a finer grid than grid_a over the same range
Na_fine == GridStep * (Na - 1) + 1
GridAFine(a_min) == [i \in 1..Na_fine |-> a_min + (i - 1)]

\* self.pi_stat, line 170: stationary_mc applied to self.pi
pi_stat ==
    Solve(BuildQ([i \in 1..Nz |-> [j \in 1..Nz |->
                    IF i = j THEN pi[i][j] - PiDen ELSE pi[i][j]]]))

RECURSIVE Gcd(_, _)
Gcd(a, b) == IF b = 0 THEN Abs(a) ELSE Gcd(Abs(b), Abs(a) % Abs(b))

RECURSIVE GcdSet(_)
GcdSet(S) ==
    IF S = {} THEN 0
    ELSE LET x == CHOOSE x \in S : TRUE IN Gcd(x, GcdSet(S \ {x}))

RECURSIVE SumFn(_, _)
SumFn(f, S) ==
    IF S = {} THEN 0
    ELSE LET x == CHOOSE x \in S : TRUE IN f[x] + SumFn(f, S \ {x})

Cells == (1..Nz) \X (1..Na_fine)

\* the same density in lowest terms, with a positive denominator
Reduce(pdf) ==
    LET g == Gcd(GcdSet({pdf.num[c[1]][c[2]] : c \in Cells}), pdf.den)
        s == IF pdf.den < 0 THEN -g ELSE g
    IN  [num |-> [iz \in 1..Nz |-> [ia \in 1..Na_fine |-> pdf.num[iz][ia] \div s]],
         den |-> pdf.den \div s]

\* lines 1131-1133: the uniform density times the stationary income shares
InitialPdf ==
    Reduce([num |-> [iz \in 1..Nz |-> [ia \in 1..Na_fine |-> pi_stat.num[iz]]],
            den |-> pi_stat.den * Na_fine])

\* lines 1146-1173: the share, in units of 1/GridStep, of the mass of source
\* cell (iz, ia) that one sweep sends to the fine grid point j
Weight_NoComplement(a_min, pol, iz, ia, j) ==
    LET fine == GridAFine(a_min)
        a_intp == Interp2(GridA(a_min), pol[iz], fine[ia])
        jl == Cardinality({k \in 1..Na_fine : GridStep * fine[k] <= a_intp})
        p0 == (a_intp - GridStep * fine[jl]) \div (fine[jl + 1] - fine[jl])
    IN  IF a_intp <= GridStep * fine[1]
        THEN (IF j = 1 THEN GridStep ELSE 0)
        ELSE IF a_intp >= GridStep * fine[Na_fine]
        THEN (IF j = Na_fine THEN GridStep ELSE 0)
        ELSE IF j = jl + 1 THEN p0
        ELSE IF j = jl THEN GridStep
        ELSE 0

Weight(a_min, pol, iz, ia, j) ==
    LET fine == GridAFine(a_min)
        a_intp == Interp2(GridA(a_min), pol[iz], fine[ia])
        jl == Cardinality({k \in 1..Na_fine : GridStep * fine[k] <= a_intp})
        p0 == (a_intp - GridStep * fine[jl]) \div (fine[jl + 1] - fine[jl])
    IN  IF a_intp <= GridStep * fine[1]
        THEN (IF j = 1 THEN GridStep ELSE 0)
        ELSE IF a_intp >= GridStep * fine[Na_fine]
        THEN (IF j = Na_fine THEN GridStep ELSE 0)
        ELSE IF j = jl + 1 THEN p0
        ELSE IF j = jl THEN GridStep - p0
        ELSE 0

\* lines 1138-1173: the density of period t+1, before it is normalised
Sweep(a_min, pol, old) ==
    [num |-> [izz \in 1..Nz |-> [j \in 1..Na_fine |->
                SumFn([c \in Cells |-> Weight(a_min, pol, c[1], c[2], j)
                                        * old.num[c[1]][c[2]] * pi[c[1]][izz]],
                      Cells)]],
     den |-> old.den * GridStep * PiDen]

\* line 1176: division by the total mass
Normalise(pdf) ==
    Reduce([num |-> pdf.num,
            den |-> SumFn([c \in Cells |-> pdf.num[c[1]][c[2]]], Cells)])

\* lines 1179-1181: np.abs(stationary_pdf-stationary_pdf_old).max() < tol
DistBelowTol(new, old) ==
    LET l == (new.den * old.den) \div Gcd(new.den, old.den)
        d == {Abs(new.num[c[1]][c[2]] * (l \div new.den)
                  - old.num[c[1]][c[2]] * (l \div old.den)) : c \in Cells}
    IN  \A e \in d : e * tol_dis_den < l

\* lines 1126-1133, entered from line 528 (ge_algorithm) or line 475
\* (graph_supply_demand)
DIS_Call ==
    /\ pl_pc = "engine"
    /\ engine = "discrete"
    /\ dis_pc = "idle"
    /\ stationary_pdf_old' = InitialPdf
    /\ dis_it' = 0
    /\ dis_pc' = "sweep"
    /\ pl_pc' = "density"
    /\ ref_pdf_old' = dis_alloc + 1
    /\ dis_alloc' = dis_alloc + 1
    /\ dis_runs' = 1
    /\ UNCHANGED <<pdf_raw, ref_pdf, ref_written, dis_again>>
    /\ UNCHANGED <<stationary_pdf, dis_conv, dis_ret>>
    /\ UNCHANGED <<caller, method, hh_ret, engine, error, k_ss>>
    /\ UNCHANGED hhVars
    /\ UNCHANGED <<solveVars, ctorVars, smcVars, mcVars,
                   hhHist, eigVars, eeVars, mgVars, geVars>>

\* lines 1136-1185: one pass of the loop
DIS_Sweep ==
    /\ dis_pc = "sweep"
    /\ LET raw == Sweep(hh_in.a_min, hh_ret.pol_sav, stationary_pdf_old)
           new == Normalise(raw)
       IN  /\ pdf_raw' = raw
           /\ stationary_pdf' = new
           /\ IF DistBelowTol(new, stationary_pdf_old)
              THEN /\ dis_conv' = TRUE
                   /\ dis_pc' = "return"
                   /\ UNCHANGED <<stationary_pdf_old, dis_it, ref_pdf_old>>
                   /\ dis_alloc' = dis_alloc + 2
              ELSE /\ stationary_pdf_old' = new
                   /\ ref_pdf_old' = CopyOf(dis_alloc + 2, dis_alloc + 3)
                   /\ dis_alloc' = dis_alloc + 3
                   /\ dis_it' = IF dis_it + 1 < maxit_dis THEN dis_it + 1 ELSE dis_it
                   /\ dis_pc' = IF dis_it + 1 < maxit_dis THEN "sweep" ELSE "return"
                   /\ UNCHANGED dis_conv
    /\ ref_written' = dis_alloc + 1
    /\ ref_pdf' = dis_alloc + 2
    /\ UNCHANGED <<dis_ret, dis_runs, dis_again>>
    /\ UNCHANGED <<hhVars, plVars>>
    /\ UNCHANGED <<solveVars, ctorVars, smcVars, mcVars,
                   hhHist, eigVars, eeVars, mgVars, geVars>>

\* line 1187
DIS_Return ==
    /\ dis_pc = "return"
    /\ dis_ret' = [k |-> "pair", stationary_pdf |-> stationary_pdf, it |-> dis_it]
    /\ dis_pc' = "done"
    /\ pl_pc' = IF caller = "ge_algorithm" THEN "check_dis" ELSE "aggregate"
    /\ UNCHANGED <<stationary_pdf_old, stationary_pdf, dis_it, dis_conv>>
    /\ UNCHANGED <<caller, method, hh_ret, engine, error, k_ss>>
    /\ UNCHANGED hhVars
    /\ UNCHANGED <<solveVars, ctorVars, smcVars, mcVars,
                 hhHist, disHist, eigVars, eeVars, mgVars, geVars>>

\* lines 1131-1187 as one step: the loop run from the density old, n passes
\* already made; the pair the function returns, and whether it left the loop
\* by the break of line 1182
RECURSIVE ForwardIteration(_, _, _, _)
ForwardIteration(a_min, pol, old, n) ==
    LET Pass(new) ==
            IF DistBelowTol(new, old)
            THEN [k |-> "pair", stationary_pdf |-> new, it |-> n, conv |-> TRUE]
            ELSE IF n + 1 < maxit_dis
                 THEN ForwardIteration(a_min, pol, new, n + 1)
                 ELSE [k |-> "pair", stationary_pdf |-> new, it |-> n, conv |-> FALSE]
    IN  CHOOSE ret \in {Pass(new) : new \in {Normalise(Sweep(a_min, pol, old))}} : TRUE

\* discrete_stationary_density() called once more on the same instance: the
\* function has no argument for an initial guess, lines 1131-1133 build the
\* uniform one on every call
DIS_Again ==
    /\ dis_pc = "done"
    /\ dis_runs = 1
    /\ dis_again' = ForwardIteration(hh_in.a_min, hh_ret.pol_sav, InitialPdf, 0)
    /\ dis_runs' = 2
    /\ UNCHANGED <<pdf_raw, ref_pdf, ref_pdf_old, ref_written, dis_alloc>>
    /\ UNCHANGED <<hhVars, plVars, disVars>>
    /\ UNCHANGED <<solveVars, ctorVars, smcVars, mcVars,
                   hhHist, eigVars, eeVars, mgVars, geVars>>

---------------------------------------------------------------------------
(* The callers: ge_algorithm lines 506-536 and graph_supply_demand lines   *)
(* 470-478.  One call of ge_algorithm, or one pass of the loop of          *)
(* graph_supply_demand, is followed from the household solve to aggregate  *)
(* capital; the eigenvector and Monte Carlo engines of ge_algorithm are    *)
(* entered but not followed.                                               *)

\* line 508: "if self.it_hh < self.maxit_hh-1"
HHAccepted(it_hh) == it_hh < maxit_hh - 1

\* line 530: "if self.it_pdf < self.maxit_dis-1"
DisAccepted(it_pdf) == it_pdf < maxit_dis - 1

\* lines 508-511
GE_CheckHH ==
    /\ pl_pc = "check_hh"
    /\ IF HHAccepted(hh_ret.it)
       THEN /\ pl_pc' = "distribution"
            /\ UNCHANGED error
       ELSE /\ pl_pc' = "raised"
            /\ error' = "No policy function convergence."
    /\ UNCHANGED <<caller, method, hh_ret, engine, k_ss>>
    /\ UNCHANGED hhVars
    /\ UNCHANGED <<solveVars, ctorVars, smcVars, disVars, mcVars,
                 hhHist, disHist, eigVars, eeVars, mgVars, geVars>>

\* lines 522, 547, 566 (ge_algorithm: the engine of self.distribution_method)
\* and line 475 (graph_supply_demand: always the discrete engine)
Dispatch ==
    /\ pl_pc = "distribution"
    /\ engine' = IF caller = "ge_algorithm" THEN method ELSE "discrete"
    /\ pl_pc' = "engine"
    /\ UNCHANGED <<caller, method, hh_ret, error, k_ss>>
    /\ UNCHANGED hhVars
    /\ UNCHANGED <<solveVars, ctorVars, smcVars, disVars, mcVars,
                 hhHist, disHist, eigVars, eeVars, mgVars, geVars>>

\* lines 530-533
GE_CheckDis ==
    /\ pl_pc = "check_dis"
    /\ IF DisAccepted(dis_ret.it)
       THEN /\ pl_pc' = "aggregate"
            /\ UNCHANGED error
       ELSE /\ pl_pc' = "raised"
            /\ error' = "No density function convergence."
    /\ UNCHANGED <<caller, method, hh_ret, engine, k_ss>>
    /\ UNCHANGED <<hhVars, disVars>>
    /\ UNCHANGED <<solveVars, ctorVars, smcVars, mcVars,
                 hhHist, disHist, eigVars, eeVars, mgVars, geVars>>

\* line 536 / line 478: np.sum(np.dot(stationary_pdf, self.grid_a_fine))
Capital(a_min, pdf) ==
    [k |-> "num",
     num |-> SumFn([c \in Cells |-> pdf.num[c[1]][c[2]] * GridAFine(a_min)[c[2]]],
                   Cells),
     den |-> pdf.den]

Aggregate ==
    /\ pl_pc = "aggregate"
    /\ k_ss' = Capital(hh_in.a_min, dis_ret.stationary_pdf)
    /\ pl_pc' = "done"
    /\ UNCHANGED <<caller, method, hh_ret, engine, error>>
    /\ UNCHANGED <<hhVars, disVars>>
    /\ UNCHANGED <<solveVars, ctorVars, smcVars, mcVars,
                 hhHist, disHist, eigVars, eeVars, mgVars, geVars>>

Init == Idle

Next ==
    \/ \E m \in Methods, in \in HHInputs : HH_Call("ge_algorithm", m, in)
    \/ \E m \in Methods, in \in HHInputs : HH_Call("graph_supply_demand", m, in)
    \/ HH_Cell
    \/ HH_Cons
    \/ HH_Norm
    \/ HH_Return
    \/ GE_CheckHH
    \/ Dispatch
    \/ DIS_Call
    \/ DIS_Sweep
    \/ DIS_Return
    \/ DIS_Again
    \/ GE_CheckDis
    \/ Aggregate

Spec == Init /\ [][Next]_vars

\* C3: called from ge_algorithm, 'No policy function convergence' is raised
\* if and only if no sweep of solve_hh reached a change below tol_hh; a solve
\* that converges on any sweep, the last allowed one included, is accepted.
C3_RaisedIffNotConverged ==
    (caller = "ge_algorithm" /\ hh_pc = "done" /\ pl_pc # "check_hh") =>
        ((error = "No policy function convergence.") <=> ~hh_conv)

\* C4: called from ge_algorithm, 'No density function convergence' is raised
\* if and only if no sweep of discrete_stationary_density reached a change
\* below tol_dis; a run that converges on any sweep, the last allowed one
\* included, is accepted.
C4_RaisedIffNoDensityConvergence ==
    (caller = "ge_algorithm" /\ dis_pc = "done" /\ pl_pc # "check_dis") =>
        ((error = "No density function convergence.") <=> ~dis_conv)

\* C5: on every call path no stage consumes an unconverged result: no
\* distribution engine runs on the policy of a solve_hh run that did not
\* converge, and aggregate capital is never computed from a density whose
\* forward iteration did not converge.
C5_NoUnconvergedConsumed ==
    /\ engine # "" => hh_conv
    /\ k_ss.k = "num" => dis_conv

C17_CornerIffNonNegative ==
    hh_cell.k # "none" =>
        /\ hh_cell.sign_lb >= 0 =>
              (hh_cell.k = "corner" /\ ~hh_cell.ub_read
                  /\ pol_sav[hh_cell.iz][hh_cell.ia] = hh_in.a_min)
        /\ hh_cell.k = "root" => hh_cell.sign_lb = -1

\* C17, amended: a cell whose residual at the lower bound is strictly
\* positive is a corner solution, savings is set to a_min without the
\* root-finder; when that residual is exactly zero or negative the residual
\* at the upper bound is evaluated and the root-finder is invoked (always
\* for zero, and for negative unless the bracket check aborts).
C17_CornerIffPositive ==
    hh_cell.k # "none" =>
        /\ hh_cell.sign_lb = 1 =>
              (hh_cell.k = "corner" /\ ~hh_cell.ub_read
                  /\ pol_sav[hh_cell.iz][hh_cell.ia] = hh_in.a_min)
        /\ hh_cell.sign_lb = 0 => (hh_cell.k = "root" /\ hh_cell.ub_read)
        /\ hh_cell.sign_lb = -1 =>
              (hh_cell.k \in {"root", "Exception"} /\ hh_cell.ub_read)
        /\ hh_cell.k = "root" => hh_cell.sign_lb \in {-1, 0}

\* a cell with residual exactly zero at the lower bound, and a_min below
\* cash on hand, went to the root-finder
C17_Witness ==
    /\ hh_cell.k = "root"
    /\ hh_cell.sign_lb = 0
    /\ hh_cell.sign_ub = 1
    /\ hh_cell.ub_read
    /\ hh_in.a_min < Budget(hh_in, GridA(hh_in.a_min)[hh_cell.ia], hh_cell.iz)

\* C18: the root-finder is never called on a bracket whose end residuals
\* have the same strict sign; when the residuals at a_min and at
\* (1+r)a + wz are both negative the solve aborts with the 'no solution to
\* Euler Equation' error and nothing is written to the cell.
C18_NoSameSignBracket ==
    hh_cell.k # "none" =>
        /\ hh_cell.k = "root" =>
              ~(hh_cell.sign_lb = hh_cell.sign_ub /\ hh_cell.sign_lb # 0)
        /\ (hh_cell.sign_lb = -1 /\ hh_cell.sign_ub = -1) =>
              /\ hh_cell.k = "Exception"
              /\ hh_pc = "raised"
              /\ error = "Sign of lower bound and upperbound are the same"
              /\ pol_sav[hh_cell.iz][hh_cell.ia] = hh_cell.prev

\* both residuals were negative and the solve was aborted
C18_Witness ==
    /\ hh_cell.k = "Exception"
    /\ hh_cell.sign_lb = -1
    /\ hh_cell.sign_ub = -1
    /\ hh_pc = "raised"

\* C19: during a sweep of solve_hh and of discrete_stationary_density the
\* table read as the previous iterate is not written and is not the table
\* being written; between sweeps the old table becomes a copy that does not
\* alias the new one, so that a write to the new table leaves it unchanged.
C19_DoubleBuffering ==
    /\ [](hh_pc \in {"cell", "cons", "norm", "return"} =>
              ref_pol_sav_old # ref_pol_sav)
    /\ [](dis_pc \in {"sweep", "return"} =>
              (ref_pdf_old # ref_pdf /\ ref_pdf_old # ref_written))
    /\ [][(hh_pc = "cell" => pol_sav_old' = pol_sav_old)
            /\ (dis_pc = "sweep" => ref_written' # ref_pdf_old)]_vars

\* both loops have replaced their old table by a copy at least once, and the
\* density of the last sweep differs from the old one
C19_Witness ==
    /\ hh_ret.k = "tuple"
    /\ hh_ret.it >= 1
    /\ dis_pc = "return"
    /\ dis_it >= 1
    /\ stationary_pdf # stationary_pdf_old
    /\ ref_pdf_old # ref_pdf

\* the total of the numerators of a density
Mass(pdf) == SumFn([c \in Cells |-> pdf.num[c[1]][c[2]]], Cells)

\* C20: one sweep of discrete_stationary_density conserves mass before the
\* renormalisation: every source cell sends all its mass to the edge point
\* when the interpolated next asset is at or beyond a grid edge, and
\* otherwise to the two fine-grid points that bracket it, with non-negative
\* weights that sum to 1; the total after the sweep is the total before.
C20_SweepConservesMass ==
    pdf_raw # NoPdf =>
        /\ Mass(pdf_raw) = pdf_raw.den
        /\ \A c \in Cells :
              LET fine == GridAFine(hh_in.a_min)
                  a_intp == Interp2(GridA(hh_in.a_min), hh_ret.pol_sav[c[1]], fine[c[2]])
                  W(j) == Weight(hh_in.a_min, hh_ret.pol_sav, c[1], c[2], j)
              IN  /\ \A j \in 1..Na_fine : W(j) >= 0
                  /\ SumFn([j \in 1..Na_fine |-> W(j)], 1..Na_fine) = GridStep
                  /\ a_intp <= GridStep * fine[1] => W(1) = GridStep
                  /\ a_intp >= GridStep * fine[Na_fine] => W(Na_fine) = GridStep
                  /\ (GridStep * fine[1] < a_intp /\ a_intp < GridStep * fine[Na_fine]) =>
                        \E j \in 1..(Na_fine - 1) :
                            /\ GridStep * fine[j] <= a_intp
                            /\ a_intp < GridStep * fine[j + 1]
                            /\ W(j) + W(j + 1) = GridStep

\* a sweep was made in which some source cell is split in halves between
\* two neighbouring fine-grid points
C20_Witness ==
    /\ pdf_raw # NoPdf
    /\ \E c \in Cells, j \in 1..(Na_fine - 1) :
          /\ Weight(hh_in.a_min, hh_ret.pol_sav, c[1], c[2], j) = 1
          /\ Weight(hh_in.a_min, hh_ret.pol_sav, c[1], c[2], j + 1) = 1

\* C9: in the tables solve_hh returns, every cell has
\* pol_cons = (1+r)*a + w*z - pol_sav with the pol_sav of the same sweep,
\* whether the loop ended by convergence or at the iteration cap.
C9_ConsOfReturnedSweep ==
    hh_ret.k = "tuple" =>
        \A iz \in 1..Nz, ia \in 1..Na :
            hh_ret.pol_cons[iz][ia]
                = Budget(hh_in, GridA(hh_in.a_min)[ia], iz) - hh_ret.pol_sav[iz][ia]

\* solve_hh returned at the iteration cap, the last sweep still moving
C9_Witness ==
    /\ hh_ret.k = "tuple"
    /\ ~hh_conv
    /\ hh_ret.it = maxit_hh - 1
    /\ hh_ret.pol_sav # Zeros

\* C10: after every sweep of solve_hh every entry of the savings policy
\* satisfies a_min <= pol_sav[z,a] <= (1+r)*a + w*z.
C10_SavingsInBracket ==
    hh_swept # <<>> =>
        \A iz \in 1..Nz, ia \in 1..Na :
            /\ hh_in.a_min <= hh_swept[iz][ia]
            /\ hh_swept[iz][ia] <= Budget(hh_in, GridA(hh_in.a_min)[ia], iz)

---------------------------------------------------------------------------
(* simulate_MonteCarlo, lines 972-1098: the simulated savings and income   *)
(* paths, the edge counter and the grid size evaluation.  Assets are       *)
(* lattice points; the asset grid of params_sim has the 200 points of the  *)
(* program, one lattice unit apart.                                        *)

\* bounds of the model: self.simN is 50_000 and self.simT is 2000
simN == 3
simT == 2

\* self.Na = 200: grid_a.size
mc_Na == 200
mc_grid_a == [i \in 1..mc_Na |-> i - 1]

Agents == 1..simN

\* the savings policies the simulation is run with: every household at the
\* borrowing limit, or one lattice step down (low income) / up (high income)
McPolicies == {"flat", "drift"}
McPolSav(name) ==
    [z \in 1..Nz |-> [i \in 1..mc_Na |->
        IF name = "flat" THEN mc_grid_a[1]
        ELSE IF z = 1 THEN Max(mc_grid_a[i] - 1, mc_grid_a[1])
        ELSE Min(mc_grid_a[i] + 1, mc_grid_a[mc_Na])]]

\* self.init_asset (1.0 in the program)
McInitAssets == {1, 2, 198}

\* lines 178-179: self.z0, 1 where np.linspace(0, 1, simN) > pi_stat[0]
z0 ==
    [i \in Agents |->
        IF (i - 1) * pi_stat.den * Sign(pi_stat.den)
               > pi_stat.num[1] * Sign(pi_stat.den) * (simN - 1)
        THEN 2 ELSE 1]

\* lines 1015-1016: draw is np.linspace(0, 1, simN) in a shuffled order;
\* perm[i] is the place of draw[i] in the linspace
Shuffles == {f \in [Agents -> Agents] : \A i, j \in Agents : f[i] = f[j] => i = j}

\* line 1036: draw[i] <= pi[z_lag_idx, 1]
DrawsHigh(perm, i, z_lag) == (perm[i] - 1) * PiDen <= pi[z_lag][2] * (simN - 1)

\* line 1004: interp(grid_a, pol_sav[z, :], a) at a lattice point a
polsav_interp(pol, a, z) ==
    IF a <= mc_grid_a[1] THEN pol[z][1]
    ELSE IF a >= mc_grid_a[mc_Na] THEN pol[z][mc_Na]
    ELSE pol[z][a - mc_grid_a[1] + 1]

\* lines 1026-1053 for agent i: the new income state and savings
\* lines 1026-1033: the lagged state the work item of agent i reads
AgentLag_Neighbour(i) ==
    IF mc_t = 0 THEN [z_lag_idx |-> mc_in.z0[i], a_lag |-> mc_in.a0]
    ELSE [z_lag_idx |-> sim_z_idx[(i % simN) + 1], a_lag |-> sim_sav[(i % simN) + 1]]
AgentLag(i) ==
    IF mc_t = 0 THEN [z_lag_idx |-> mc_in.z0[i], a_lag |-> mc_in.a0]
    ELSE [z_lag_idx |-> sim_z_idx[i], a_lag |-> sim_sav[i]]

AgentZ(perm, i) ==
    IF DrawsHigh(perm, i, AgentLag(i).z_lag_idx) THEN 2 ELSE 1
AgentSav(perm, i) ==
    Max(polsav_interp(McPolSav(mc_in.pol_sav), AgentLag(i).a_lag, AgentZ(perm, i)),
        mc_grid_a[1])

\* lines 1019-1022: sim_k[t] = np.mean(a0) or np.mean(sim_sav), times simN
MeanAssets == IF mc_t <= 0 THEN simN * mc_in.a0 ELSE SumSeq(sim_sav)

\* line 998: np.empty(simN) * np.nan
NaN == [k |-> "nan", t |-> -1]

\* line 1062: "if sim_sav[i] >= pol_sav[sim_z_idx[i],-1]"
AtEdge(pol, sav, z) == sav >= pol[z][mc_Na]

\* lines 1066-1068: "if sim_sav[i] == grid_a[0]: constrained=True"
Constrained(sav) == sav = mc_grid_a[1]

\* line 1071: "sim_c[i] < sim_m[i] and constrained==False and check_out==False",
\* with sim_c = sim_m - sim_sav (line 1057)
ComputesResidual(pol, sav, z) ==
    /\ sav > 0
    /\ ~Constrained(sav)
    /\ ~AtEdge(pol, sav, z)

\* lines 1071-1086: the entry of agent i after period t; it is assigned only
\* under the test of line 1071 and keeps its value otherwise
AgentResidual(perm, i) ==
    IF ComputesResidual(McPolSav(mc_in.pol_sav), AgentSav(perm, i), AgentZ(perm, i))
    THEN [k |-> "value", t |-> mc_t]
    ELSE euler_error_sim[i]

\* lines 1094-1095: frac_outside = edge/grid_a.size; frac_outside > 0.01
GridTooSmall(e) == e * 100 > mc_Na

\* lines 989-1000
MC_Call(name, a0) ==
    /\ mc_pc = "idle"
    /\ mc_in' = [pol_sav |-> name, a0 |-> a0, z0 |-> z0]
    /\ mc_t' = 0
    /\ sim_sav' = [i \in Agents |-> 0]
    /\ sim_z_idx' = [i \in Agents |-> 1]
    /\ edge' = 0
    /\ euler_error_sim' = [i \in Agents |-> NaN]
    /\ sim_k' = <<>>
    /\ mc_pc' = "loop"
    /\ UNCHANGED <<at_top, par_draw, par_todo, par_edge, par_ref>>
    /\ UNCHANGED <<solveVars, ctorVars, smcVars, hhVars, plVars, disVars,
                 hhHist, disHist, eigVars, eeVars, mgVars, geVars>>

\* lines 1013-1086: one period, every agent
MC_Period(perm) ==
    /\ mc_pc = "loop"
    /\ mc_t < simT
    /\ sim_z_idx' = [i \in Agents |-> AgentZ(perm, i)]
    /\ sim_sav' = [i \in Agents |-> AgentSav(perm, i)]
    /\ edge' = edge + Cardinality({i \in Agents :
                    AtEdge(McPolSav(mc_in.pol_sav), AgentSav(perm, i), AgentZ(perm, i))})
    /\ at_top' = at_top \cup {i \in Agents : AgentSav(perm, i) >= mc_grid_a[mc_Na]}
    /\ euler_error_sim' = [i \in Agents |-> AgentResidual(perm, i)]
    /\ sim_k' = Append(sim_k, MeanAssets)
    /\ mc_t' = mc_t + 1
    /\ UNCHANGED <<mc_pc, mc_in, par_draw, par_todo, par_edge, par_ref>>
    /\ UNCHANGED <<solveVars, ctorVars, smcVars, hhVars, plVars, disVars,
                 hhHist, disHist, eigVars, eeVars, mgVars, geVars>>

\* lines 1093-1098
MC_End ==
    /\ mc_pc = "loop"
    /\ ~(mc_t < simT)
    /\ mc_pc' = IF GridTooSmall(edge) THEN "raised" ELSE "returned"
    /\ UNCHANGED <<mc_in, mc_t, sim_sav, sim_z_idx, edge, at_top, euler_error_sim,
                   sim_k, par_draw, par_todo, par_edge, par_ref>>
    /\ UNCHANGED <<solveVars, ctorVars, smcVars, hhVars, plVars, disVars,
                 hhHist, disHist, eigVars, eeVars, mgVars, geVars>>

InitMC == Idle

NextMC ==
    \/ \E name \in McPolicies, a0 \in McInitAssets : MC_Call(name, a0)
    \/ \E perm \in Shuffles : MC_Period(perm)
    \/ MC_End

SpecMC == InitMC /\ [][NextMC]_vars

\* C8: simulate_MonteCarlo raises 'Increase grid size!' exactly when more
\* than 1% of the simN agents reached the top edge of the asset grid, and
\* returns normally otherwise.
C8_RaisesIffOverOnePercent ==
    mc_pc \in {"raised", "returned"} =>
        ((mc_pc = "raised") <=> (Cardinality(at_top) * 100 > simN))

\* C22: in the array simulate_MonteCarlo returns, the entry of every agent
\* that is at the grid edge or borrowing-constrained in the final simulated
\* period is NaN; a residual is there only for an agent that was neither.
C22_FinalPeriodResidualsOnly ==
    mc_pc = "returned" =>
        \A i \in Agents :
            (AtEdge(McPolSav(mc_in.pol_sav), sim_sav[i], sim_z_idx[i])
                \/ Constrained(sim_sav[i]))
            => euler_error_sim[i] = NaN

---------------------------------------------------------------------------
(* simulate_MonteCarlo with the loop of line 1024 run as numba runs it     *)
(*                                                                         *)
(* The function is compiled with @njit(parallel=True) and the loop over    *)
(* the agents is a prange: its iterations (one work item per agent) run in *)
(* any order, and a scalar updated from its own previous value by + is a   *)
(* reduction, accumulated per work item and added to the variable when the *)
(* loop ends.  The scalars assigned inside the body (z_lag_idx, a_lag, y,  *)
(* check_out, constrained, avg_marg_c_plus) are private to a work item.    *)

\* lines 1015-1022: the draw of the period and sim_k[t], before the loop
PAR_Draw(perm) ==
    /\ mc_pc = "loop"
    /\ mc_t < simT
    /\ par_draw' = perm
    /\ sim_k' = Append(sim_k, MeanAssets)
    /\ par_todo' = Agents
    /\ par_edge' = [i \in Agents |-> 0]
    /\ par_ref' = [sim_z_idx |-> [i \in Agents |-> AgentZ(perm, i)],
                   sim_sav |-> [i \in Agents |-> AgentSav(perm, i)],
                   euler_error_sim |-> [i \in Agents |-> AgentResidual(perm, i)],
                   edge |-> edge + Cardinality({i \in Agents :
                       AtEdge(McPolSav(mc_in.pol_sav), AgentSav(perm, i), AgentZ(perm, i))})]
    /\ mc_pc' = "agents"
    /\ UNCHANGED <<mc_in, mc_t, sim_sav, sim_z_idx, edge, at_top, euler_error_sim>>
    /\ UNCHANGED <<solveVars, ctorVars, smcVars, hhVars, plVars, disVars,
                 hhHist, disHist, eigVars, eeVars, mgVars, geVars>>

\* lines 1024-1086: the work item of agent i
PAR_Agent(i) ==
    /\ mc_pc = "agents"
    /\ i \in par_todo
    /\ sim_z_idx' = [sim_z_idx EXCEPT ![i] = AgentZ(par_draw, i)]
    /\ sim_sav' = [sim_sav EXCEPT ![i] = AgentSav(par_draw, i)]
    /\ par_edge' = [par_edge EXCEPT ![i] =
            IF AtEdge(McPolSav(mc_in.pol_sav), AgentSav(par_draw, i), AgentZ(par_draw, i))
            THEN 1 ELSE 0]
    /\ at_top' = IF AgentSav(par_draw, i) >= mc_grid_a[mc_Na] THEN at_top \cup {i}
                 ELSE at_top
    /\ euler_error_sim' = [euler_error_sim EXCEPT ![i] = AgentResidual(par_draw, i)]
    /\ par_todo' = par_todo \ {i}
    /\ UNCHANGED <<mc_pc, mc_in, mc_t, edge, sim_k, par_draw, par_ref>>
    /\ UNCHANGED <<solveVars, ctorVars, smcVars, hhVars, plVars, disVars,
                 hhHist, disHist, eigVars, eeVars, mgVars, geVars>>

\* the end of the prange loop: the reduction is added to edge
PAR_Join ==
    /\ mc_pc = "agents"
    /\ par_todo = {}
    /\ edge' = edge + SumSeq(par_edge)
    /\ mc_t' = mc_t + 1
    /\ mc_pc' = "loop"
    /\ UNCHANGED <<mc_in, sim_sav, sim_z_idx, at_top, euler_error_sim, sim_k,
                   par_draw, par_todo, par_edge, par_ref>>
    /\ UNCHANGED <<solveVars, ctorVars, smcVars, hhVars, plVars, disVars,
                 hhHist, disHist, eigVars, eeVars, mgVars, geVars>>

InitPar == Idle

NextPar ==
    \/ \E name \in McPolicies, a0 \in McInitAssets : MC_Call(name, a0)
    \/ \E perm \in Shuffles : PAR_Draw(perm)
    \/ \E i \in Agents : PAR_Agent(i)
    \/ PAR_Join
    \/ MC_End

SpecPar == InitPar /\ [][NextPar]_vars

\* C24: the work items of a period may run in any order: every agent whose
\* work item has run holds, in each per-agent array, the entry the loop run
\* in index order gives it; when the loop has ended the edge counter went up
\* by the number of edge events of the period; and sim_k[t] is the sum of
\* the assets held before any work item of period t ran.
C24_OrderIndependent ==
    /\ mc_pc = "agents" =>
          /\ \A i \in Agents \ par_todo :
                /\ sim_z_idx[i] = par_ref.sim_z_idx[i]
                /\ sim_sav[i] = par_ref.sim_sav[i]
                /\ euler_error_sim[i] = par_ref.euler_error_sim[i]
          /\ (par_todo = Agents => sim_k[mc_t + 1] = MeanAssets)
    /\ (mc_pc \in {"loop", "returned", "raised"} /\ mc_t >= 1) =>
          /\ sim_z_idx = par_ref.sim_z_idx
          /\ sim_sav = par_ref.sim_sav
          /\ euler_error_sim = par_ref.euler_error_sim
          /\ edge = par_ref.edge
          /\ Len(sim_k) = mc_t
\* in the second period the work item of agent 1 runs last, after one with
\* an edge event and one that computed a residual
C24_Witness ==
    /\ mc_pc = "agents"
    /\ mc_t = 1
    /\ par_todo = {1}
    /\ \E i \in Agents \ par_todo : par_edge[i] = 1
    /\ \E i \in Agents \ par_todo : par_edge[i] = 0 /\ euler_error_sim[i].t = 1

---------------------------------------------------------------------------
(* AiyagariPFISmall.eigen_stationary_density, lines 283-367                *)
(*                                                                         *)
(* Q is indexed as in the program, rows and columns 0 .. Nz*Na_fine-1,     *)
(* entries in units of 1/(GridStep*PiDen).  np.linalg.eig is not computed: *)
(* the column it returns for the eigenvalue 1 is any non-zero vector x     *)
(* with x Q = x, here with small integer entries.                          *)

\* bound of the model: the largest entry of an eigenvector
EigCoefMax == 3
EigCoef == -1..EigCoefMax

QSize == Nz * Na_fine
QIndex == 0..(QSize - 1)

\* a negative index counts from the end of the axis
PyIndex(i) == IF i < 0 THEN i + QSize ELSE i

\* the savings policies self.pol_sav the method is run with, values inside
\* the asset grid: everybody at the borrowing limit, everybody at a_max, the
\* low income state at a_min and the high one at a_max, and a step from
\* a_min (lower half of the grid) to a_max (upper half)
EigPolicyNames == {"corner", "top", "split", "step"}
EigPolSav(name, a_min) ==
    LET g == GridA(a_min)
    IN  [z \in 1..Nz |-> [i \in 1..Na |->
            IF name = "corner" THEN g[1]
            ELSE IF name = "top" THEN g[Na]
            ELSE IF name = "split" THEN (IF z = 1 THEN g[1] ELSE g[Na])
            ELSE (IF 2 * i <= Na THEN g[1] ELSE g[Na])]]

\* lines 307-324: the pair (p, j) for the source cell (i_z, i_a), p in units
\* of 1/GridStep, i_a and j counted from 0
EigPJ_NoEdgeShift(a_min, pol, iz, ia) ==
    LET fine == GridAFine(a_min)
        a_intp == Interp2(GridA(a_min), pol[iz], fine[ia + 1])
        j == Cardinality({k \in 1..Na_fine : GridStep * fine[k] <= a_intp})
    IN  IF a_intp <= GridStep * fine[1] THEN [p |-> 0, j |-> j]
        ELSE IF a_intp >= GridStep * fine[Na_fine] THEN [p |-> GridStep, j |-> j]
        ELSE [p |-> (a_intp - GridStep * fine[j]) \div (fine[j + 1] - fine[j]),
              j |-> j]

EigPJ(a_min, pol, iz, ia) ==
    LET fine == GridAFine(a_min)
        a_intp == Interp2(GridA(a_min), pol[iz], fine[ia + 1])
        j == Cardinality({k \in 1..Na_fine : GridStep * fine[k] <= a_intp})
    IN  IF a_intp <= GridStep * fine[1] THEN [p |-> 0, j |-> j]
        ELSE IF a_intp >= GridStep * fine[Na_fine] THEN [p |-> GridStep, j |-> j - 1]
        ELSE [p |-> (a_intp - GridStep * fine[j]) \div (fine[j + 1] - fine[j]),
              j |-> j]

\* lines 327-333: row na + i_a of Q after its assignments
QRow(a_min, pol, iz, ia) ==
    LET pj == EigPJ(a_min, pol, iz, ia)
        hi(izz) == PyIndex((izz - 1) * Na_fine + pj.j)
        lo(izz) == PyIndex((izz - 1) * Na_fine + pj.j - 1)
    IN  [col \in QIndex |->
            IF \E izz \in 1..Nz : col = lo(izz)
            THEN LET izz == CHOOSE izz \in 1..Nz : col = lo(izz)
                 IN  (GridStep - pj.p) * pi[iz][izz]
            ELSE IF \E izz \in 1..Nz : col = hi(izz)
            THEN LET izz == CHOOSE izz \in 1..Nz : col = hi(izz)
                 IN  pj.p * pi[iz][izz]
            ELSE 0]

\* lines 300-333
BuildTransition(a_min, pol) ==
    [row \in QIndex |->
        QRow(a_min, pol, (row \div Na_fine) + 1, row % Na_fine)]

\* line 336: every row of Q sums to 1
RowsSumToOne(q) ==
    \A row \in QIndex : SumFn(q[row], QIndex) = GridStep * PiDen

\* lines 339-346: the columns np.linalg.eig(Q.T) can return for eigenvalue 1
IsFixedVector(q, x) ==
    \A col \in QIndex :
        SumFn([row \in QIndex |-> x[row] * q[row][col]], QIndex)
            = x[col] * GridStep * PiDen
EigenVectors(q) ==
    {x \in [QIndex -> EigCoef] :
        (\E i \in QIndex : x[i] # 0) /\ IsFixedVector(q, x)}

\* lines 362-365: reshape(Nz, Na_fine), divided by the sum of the entries
EigDensity(x) ==
    [k |-> "pdf",
     num |-> [iz \in 1..Nz |-> [ia \in 1..Na_fine |-> x[(iz - 1) * Na_fine + ia - 1]]],
     den |-> SumFn(x, QIndex)]

EIG_Call(name, a_min) ==
    /\ eig_pc = "idle"
    /\ eig_in' = [pol_sav |-> EigPolSav(name, a_min), a_min |-> a_min]
    /\ eig_pc' = "build"
    /\ UNCHANGED <<Q, eigen_vec_stat, eig_ret>>
    /\ UNCHANGED <<solveVars, ctorVars, smcVars, hhVars, plVars, disVars, mcVars,
                   hhHist, disHist, eeVars, mgVars, geVars>>

\* lines 300-336
EIG_Build ==
    /\ eig_pc = "build"
    /\ Q' = BuildTransition(eig_in.a_min, eig_in.pol_sav)
    /\ eig_pc' = IF RowsSumToOne(BuildTransition(eig_in.a_min, eig_in.pol_sav))
                 THEN "eig" ELSE "raised"
    /\ UNCHANGED <<eig_in, eigen_vec_stat, eig_ret>>
    /\ UNCHANGED <<solveVars, ctorVars, smcVars, hhVars, plVars, disVars, mcVars,
                   hhHist, disHist, eeVars, mgVars, geVars>>

\* lines 339-356
EIG_Eig(x) ==
    /\ eig_pc = "eig"
    /\ x \in EigenVectors(Q)
    /\ eigen_vec_stat' = x
    /\ eig_pc' = "normalise"
    /\ UNCHANGED <<eig_in, Q, eig_ret>>
    /\ UNCHANGED <<solveVars, ctorVars, smcVars, hhVars, plVars, disVars, mcVars,
                   hhHist, disHist, eeVars, mgVars, geVars>>

\* lines 362-367
EIG_Return ==
    /\ eig_pc = "normalise"
    /\ eig_ret' = EigDensity(eigen_vec_stat)
    /\ eig_pc' = "done"
    /\ UNCHANGED <<eig_in, Q, eigen_vec_stat>>
    /\ UNCHANGED <<solveVars, ctorVars, smcVars, hhVars, plVars, disVars, mcVars,
                   hhHist, disHist, eeVars, mgVars, geVars>>

InitEig == Idle

NextEig ==
    \/ \E name \in EigPolicyNames, a_min \in {-2, 0} : EIG_Call(name, a_min)
    \/ EIG_Build
    \/ \E x \in [QIndex -> EigCoef] : EIG_Eig(x)
    \/ EIG_Return

SpecEig == InitEig /\ [][NextEig]_vars

\* a table [num, den] is a probability density: the division is defined,
\* every entry num/den is >= 0 and the entries sum to 1
IsDensity(pdf) ==
    /\ pdf.den # 0
    /\ \A c \in Cells : pdf.num[c[1]][c[2]] * pdf.den >= 0
    /\ SumFn([c \in Cells |-> pdf.num[c[1]][c[2]]], Cells) = pdf.den

\* C11: the joint density returned by discrete_stationary_density and by
\* eigen_stationary_density sums to 1 and has every entry >= 0, for every
\* savings policy with values inside the asset grid range.
C11_DensityIsDistribution ==
    /\ eig_ret.k = "pdf" => IsDensity(eig_ret)
    /\ dis_ret.k = "pair" => IsDensity(dis_ret.stationary_pdf)

---------------------------------------------------------------------------
(* AiyagariPFISmall.ee_error, lines 378-436                                *)
(*                                                                         *)
(* A cell of euler_error is held by its kind, np.nan or a computed         *)
(* residual, together with the interpolated savings (doubled) the kind was *)
(* decided on.  The borrowing limit a_bar is any lattice value, negative,  *)
(* zero or positive; self.pol_sav is any table with values on the grid.    *)

EeBorrowingLimits == {-2, 0, 2}

EePolicies(a_min) ==
    [1..Nz -> [1..Na -> {GridA(a_min)[i] : i \in 1..Na}]]

\* lines 404-426: one cell
EeCell(in, iz, ia) ==
    LET a_plus == Interp2(GridA(in.a_min), in.pol_sav[iz], GridAFine(in.a_min)[ia])
    IN  IF a_plus <= 0
        THEN [k |-> "nan", a_plus |-> a_plus]
        ELSE [k |-> "value", a_plus |-> a_plus]

\* np.nanmax / np.nanmean, lines 431-432: the cells the reductions read
NanAware(err) == {c \in Cells : err[c[1]][c[2]].k # "nan"}

EE_Call(a_min, pol) ==
    /\ ee_pc = "idle"
    /\ ee_in' = [pol_sav |-> pol, a_min |-> a_min]
    /\ euler_error' = [iz \in 1..Nz |-> [ia \in 1..Na_fine |-> [k |-> "value", a_plus |-> 0]]]
    /\ ee_pc' = "loop"
    /\ UNCHANGED ee_used
    /\ UNCHANGED <<solveVars, ctorVars, smcVars, hhVars, plVars, disVars, mcVars,
                   hhHist, disHist, eigVars, mgVars, geVars>>

\* lines 399-426
EE_Loop ==
    /\ ee_pc = "loop"
    /\ euler_error' = [iz \in 1..Nz |-> [ia \in 1..Na_fine |-> EeCell(ee_in, iz, ia)]]
    /\ ee_pc' = "reduce"
    /\ UNCHANGED <<ee_in, ee_used>>
    /\ UNCHANGED <<solveVars, ctorVars, smcVars, hhVars, plVars, disVars, mcVars,
                   hhHist, disHist, eigVars, mgVars, geVars>>

\* lines 430-432
EE_Reduce ==
    /\ ee_pc = "reduce"
    /\ ee_used' = NanAware(euler_error)
    /\ ee_pc' = "return"
    /\ UNCHANGED <<ee_in, euler_error>>
    /\ UNCHANGED <<solveVars, ctorVars, smcVars, hhVars, plVars, disVars, mcVars,
                   hhHist, disHist, eigVars, mgVars, geVars>>

\* line 436
EE_Return ==
    /\ ee_pc = "return"
    /\ ee_pc' = "done"
    /\ UNCHANGED <<ee_in, euler_error, ee_used>>
    /\ UNCHANGED <<solveVars, ctorVars, smcVars, hhVars, plVars, disVars, mcVars,
                   hhHist, disHist, eigVars, mgVars, geVars>>

InitEE == Idle

NextEE ==
    \/ \E a_min \in EeBorrowingLimits : \E pol \in EePolicies(a_min) : EE_Call(a_min, pol)
    \/ EE_Loop
    \/ EE_Reduce
    \/ EE_Return

SpecEE == InitEE /\ [][NextEE]_vars

\* C13: for every borrowing limit, ee_error gives a fine-grid cell the
\* not-a-number sentinel exactly when the interpolated savings equal the
\* borrowing limit a_min, every other cell holds a computed residual, and
\* the max and mean are taken over the cells that are not NaN.
C13_NanIffConstraintBinds ==
    ee_pc = "done" =>
        /\ \A c \in Cells :
              (euler_error[c[1]][c[2]].k = "nan")
                  <=> (euler_error[c[1]][c[2]].a_plus = GridStep * ee_in.a_min)
        /\ ee_used = {c \in Cells : euler_error[c[1]][c[2]].k = "value"}

---------------------------------------------------------------------------
(* AiyagariPFISmall.make_grid, lines 190-206                               *)
(*                                                                         *)
(* The grid is computed in floating point.  The power (i/(num-1))**curv of *)
(* line 204 is held rounded to the nearest multiple of 1/PowRes, so that a *)
(* power below half a unit rounds to 0 as 0.5**2000 does in float64; grid  *)
(* values are held in units of 1/PowRes, the product and the sum of line   *)
(* 204 being exact.  The curvature is a positive integer.                  *)

PowRes == 8
MaxNum == 4
MaxCurv == 3

MgInputs ==
    {[min_val |-> lo, max_val |-> lo + d, num |-> n, curv |-> c] :
        lo \in {-2, 0, 1}, d \in {1, 3}, n \in 2..MaxNum, c \in 1..MaxCurv}

RECURSIVE IntPow(_, _)
IntPow(b, e) == IF e = 0 THEN 1 ELSE b * IntPow(b, e - 1)

\* line 204: ((i)/(num - 1)) ** curv, rounded to the nearest unit
Power(i, num, curv) ==
    (2 * IntPow(i, curv) * PowRes + IntPow(num - 1, curv))
        \div (2 * IntPow(num - 1, curv))

\* line 204: min_val + scale*((i)/(num - 1)) ** curv, i counted from 0
GridPoint(in, i) ==
    in.min_val * PowRes + (in.max_val - in.min_val) * Power(i, in.num, in.curv)

\* line 202: grd[num-1] = max_val
SetLast_Skip(g, in) == g
SetLast(g, in) == [g EXCEPT ![in.num] = in.max_val * PowRes]

\* lines 199-202
MG_Call(in) ==
    /\ mg_pc = "idle"
    /\ mg_in' = in
    /\ grd' = SetLast([[i \in 1..in.num |-> 0] EXCEPT ![1] = in.min_val * PowRes], in)
    /\ mg_i' = 1
    /\ mg_pc' = "loop"
    /\ UNCHANGED <<solveVars, ctorVars, smcVars, hhVars, plVars, disVars, mcVars,
                   hhHist, disHist, eigVars, eeVars, geVars>>

\* lines 203-204: one pass of "for i in range(1,num-1)"
MG_Point ==
    /\ mg_pc = "loop"
    /\ mg_i < mg_in.num - 1
    /\ grd' = [grd EXCEPT ![mg_i + 1] = GridPoint(mg_in, mg_i)]
    /\ mg_i' = mg_i + 1
    /\ UNCHANGED <<mg_pc, mg_in>>
    /\ UNCHANGED <<solveVars, ctorVars, smcVars, hhVars, plVars, disVars, mcVars,
                   hhHist, disHist, eigVars, eeVars, geVars>>

\* line 206
MG_Return ==
    /\ mg_pc = "loop"
    /\ mg_i >= mg_in.num - 1
    /\ mg_pc' = "done"
    /\ UNCHANGED <<mg_in, grd, mg_i>>
    /\ UNCHANGED <<solveVars, ctorVars, smcVars, hhVars, plVars, disVars, mcVars,
                   hhHist, disHist, eigVars, eeVars, geVars>>

InitGrid == Idle

NextGrid ==
    \/ \E in \in MgInputs : MG_Call(in)
    \/ MG_Point
    \/ MG_Return

SpecGrid == InitGrid /\ [][NextGrid]_vars

StrictlyIncreasing(g) == \A i \in 1..(Len(g) - 1) : g[i] < g[i + 1]
NonDecreasing(g) == \A i \in 1..(Len(g) - 1) : g[i] <= g[i + 1]

\* no power of an interior point is rounded to 0 or to 1, and no two of them
\* are rounded to the same value
PowersSurvive(in) ==
    \A i \in 0..(in.num - 2) :
        Power(i, in.num, in.curv) < Power(i + 1, in.num, in.curv)

---------------------------------------------------------------------------
(* The transition matrix of eigen_stationary_density, lines 300-336, set   *)
(* against one sweep of discrete_stationary_density, lines 1138-1173.      *)
(* self.pol_sav is any table whose rows do not decrease in a, with values  *)
(* on the lattice from one point below the asset grid to one point above.  *)

QPolicyValues(a_min) == (a_min - 1)..(GridA(a_min)[Na] + 1)

QPolicies(a_min) ==
    {pol \in [1..Nz -> [1..Na -> QPolicyValues(a_min)]] :
        \A z \in 1..Nz, i \in 1..(Na - 1) : pol[z][i] <= pol[z][i + 1]}

\* line 283: the method is entered with self.pol_sav = pol
EIG_CallWith(pol, a_min) ==
    /\ eig_pc = "idle"
    /\ eig_in' = [pol_sav |-> pol, a_min |-> a_min]
    /\ eig_pc' = "build"
    /\ UNCHANGED <<Q, eigen_vec_stat, eig_ret>>
    /\ UNCHANGED <<solveVars, ctorVars, smcVars, hhVars, plVars, disVars, mcVars,
                   hhHist, disHist, eeVars, mgVars, geVars>>

InitQ == Idle

NextQ ==
    \/ \E a_min \in {-2} : \E pol \in QPolicies(a_min) : EIG_CallWith(pol, a_min)
    \/ EIG_Build

SpecQ == InitQ /\ [][NextQ]_vars

\* every value of the policy lies in [grid_a[0], grid_a[-1]]
InsideGrid(in) ==
    \A z \in 1..Nz, i \in 1..Na :
        /\ GridA(in.a_min)[1] <= in.pol_sav[z][i]
        /\ in.pol_sav[z][i] <= GridA(in.a_min)[Na]

\* the density with all its mass in the cell c
UnitMass(c) ==
    [num |-> [iz \in 1..Nz |-> [ia \in 1..Na_fine |->
                IF <<iz, ia>> = c THEN 1 ELSE 0]],
     den |-> 1]

\* C21: for a savings policy with values inside the grid range, row (z,a)
\* of the matrix Q of eigen_stationary_density is the unnormalised density
\* one sweep of discrete_stationary_density makes of a unit mass at (z,a),
\* at the grid edges too; every row of Q sums to 1 and the assertion on the
\* row sums does not fail.
C21_QIsOneSweep ==
    (eig_pc \in {"eig", "raised"} /\ InsideGrid(eig_in)) =>
        /\ \A c \in Cells, d \in Cells :
              Q[(c[1] - 1) * Na_fine + c[2] - 1][(d[1] - 1) * Na_fine + d[2] - 1]
                  = Sweep(eig_in.a_min, eig_in.pol_sav, UnitMass(c)).num[d[1]][d[2]]
        /\ RowsSumToOne(Q)
        /\ eig_pc = "eig"

\* Q was built for a policy inside the grid that sends one cell to the left
\* edge, one to the right edge and one half way between two fine-grid points
C21_Witness ==
    /\ eig_pc = "eig"
    /\ InsideGrid(eig_in)
    /\ \E z \in 1..Nz, i \in 0..(Na_fine - 1) :
          EigPJ(eig_in.a_min, eig_in.pol_sav, z, i) = [p |-> 0, j |-> 1]
    /\ \E z \in 1..Nz, i \in 0..(Na_fine - 1) :
          EigPJ(eig_in.a_min, eig_in.pol_sav, z, i) = [p |-> GridStep, j |-> Na_fine - 1]
    /\ \E z \in 1..Nz, i \in 0..(Na_fine - 1) :
          EigPJ(eig_in.a_min, eig_in.pol_sav, z, i).p = 1

---------------------------------------------------------------------------
(* The arrays of an instance, lines 84-95, 127-183 and every method        *)
(*                                                                         *)
(* A name (an attribute of the instance, an element of one of the packed   *)
(* tuples, or a local of the method that runs) is bound to an array, held  *)
(* as its identity, the function that last wrote into it and the number   *)
(* of statements that wrote into it.  A method is the sequence of its      *)
(* statements that create, bind, copy or write arrays:                     *)
(*   <<"new", n, f>>    n = a new array made by f (np.zeros, np.array, an  *)
(*                      arithmetic expression, a function's result)        *)
(*   <<"bind", n, m>>   n = m: the same array under a second name (tuple   *)
(*                      packing and unpacking, argument passing)           *)
(*   <<"copy", n, m>>   n = np.copy(m)                                     *)
(*   <<"write", n, f>>  n[...] = ... inside f                              *)
(* Reading a name that is not bound ends the method (AttributeError).      *)

Unbound == [id |-> 0, by |-> "", ver |-> 0]

\* the attributes and tuple elements that hold arrays
AttrNames ==
    {"grid_z", "pi", "a0", "grid_a", "pi_stat", "z0", "grid_a_fine",
     "params_pfi.pi", "params_pfi.grid_a", "params_pfi.grid_z",
     "params_discrete.grid_a", "params_discrete.grid_a_fine",
     "params_discrete.pi", "params_discrete.pi_stat",
     "params_sim.a0", "params_sim.z0", "params_sim.grid_z",
     "params_sim.grid_a", "params_sim.pi",
     "pol_sav", "pol_cons", "stationary_pdf", "Q", "ss_sim_sav",
     "euler_error_sim", "euler_error", "k_demand", "k_supply", "r_vec",
     "caller.pi_stat"}
\* the locals of the methods
LocalNames ==
    {"grd", "p", "q", "x", "l_pi", "l_grid_a", "l_grid_z", "l_grid_a_fine",
     "l_pi_stat", "l_a0", "l_z0", "l_pol_sav", "pol_sav_old", "pol_sav_new",
     "pol_cons_new", "pdf_old", "pdf", "Q_new", "eigen_vec", "sim_sav_new",
     "err_new", "k_demand_new", "k_supply_new", "ret"}
\* the arrays the construction leaves for the methods to read
FrozenNames == {"grid_a", "grid_a_fine", "grid_z", "pi", "pi_stat"}

NoArrays == [n \in AttrNames \cup LocalNames |-> Unbound]

\* the identity of a new array: one no name is bound to
FreshId(arr) ==
    CHOOSE i \in 1..(Cardinality(DOMAIN arr) + 1) :
        /\ \A n \in DOMAIN arr : arr[n].id # i
        /\ \A j \in 1..(i - 1) : \E n \in DOMAIN arr : arr[n].id = j

\* one statement
Statement(st, ins) ==
    IF st.err THEN st
    ELSE IF ins[1] = "new"
    THEN [st EXCEPT !.arr[ins[2]] = [id |-> FreshId(st.arr), by |-> ins[3], ver |-> 0]]
    ELSE IF st.arr[IF ins[1] = "write" THEN ins[2] ELSE ins[3]].id = 0
    THEN [st EXCEPT !.err = TRUE]
    ELSE IF ins[1] = "write"
    THEN [st EXCEPT !.arr = [n \in DOMAIN st.arr |->
            IF st.arr[n].id = st.arr[ins[2]].id
            THEN [id |-> st.arr[n].id, by |-> ins[3], ver |-> st.arr[n].ver + 1]
            ELSE st.arr[n]]]
    ELSE IF ins[1] = "bind"
    THEN [st EXCEPT !.arr[ins[2]] = st.arr[ins[3]]]
    ELSE [st EXCEPT !.arr[ins[2]] = [id |-> FreshId(st.arr), by |-> "np.copy", ver |-> 0]]

\* the first k statements of a method
RECURSIVE Statements(_, _, _)
Statements(st, prog, k) ==
    IF k = 0 THEN st
    ELSE CHOOSE r \in {Statement(s, prog[k]) : s \in {Statements(st, prog, k - 1)}} : TRUE

\* a whole method: its statements, then its locals go out of scope
Run(arr, prog) ==
    LET st == Statements([arr |-> arr, err |-> FALSE], prog, Len(prog))
    IN  [arr |-> [n \in DOMAIN arr |-> IF n \in LocalNames THEN Unbound ELSE st.arr[n]],
         err |-> st.err]

\* make_grid, lines 199-206, and the assignment of its result to dst
ProgMakeGrid(dst) ==
    << <<"new", "grd", "np.zeros">>, <<"write", "grd", "make_grid">>,
       <<"bind", dst, "grd">> >>

\* stationary_mc(src), lines 219-231, and the assignment of its result
ProgStationaryMC_InPlace(src, dst) ==
    << <<"bind", "p", src>>, <<"write", "p", "stationary_mc">>,
       <<"new", "q", "np.c_">>, <<"new", "x", "np.r_">>,
       <<"new", dst, "np.dot">> >>
ProgStationaryMC(src, dst) ==
    << <<"copy", "p", src>>, <<"write", "p", "stationary_mc">>,
       <<"new", "q", "np.c_">>, <<"new", "x", "np.r_">>,
       <<"new", dst, "np.dot">> >>

\* __init__: setup_parameters (127-128, 150), setup_grid (167-183) and the
\* packing of lines 89-95
ProgInit(o) ==
    << <<"new", "grid_z", "np.array">>, <<"new", "pi", "np.array">> >>
    \o (IF IsMC(o) THEN << <<"new", "a0", "np.ones">> >> ELSE << >>)
    \o ProgMakeGrid("grid_a")
    \o ProgStationaryMC("pi", "pi_stat")
    \o << <<"new", "grid_z", "grid_z / avg_z">> >>
    \o (IF IsMC(o)
        THEN << <<"new", "z0", "np.zeros">>, <<"write", "z0", "setup_grid">> >>
        ELSE << >>)
    \o (IF WantsFine(o) THEN ProgMakeGrid("grid_a_fine") ELSE << >>)
    \o << <<"bind", "params_pfi.pi", "pi">>, <<"bind", "params_pfi.grid_a", "grid_a">>,
          <<"bind", "params_pfi.grid_z", "grid_z">> >>
    \o (IF PacksDiscrete(o)
        THEN << <<"bind", "params_discrete.grid_a", "grid_a">>,
                <<"bind", "params_discrete.grid_a_fine", "grid_a_fine">>,
                <<"bind", "params_discrete.pi", "pi">>,
                <<"bind", "params_discrete.pi_stat", "pi_stat">> >>
        ELSE << >>)
    \o (IF IsMC(o)
        THEN << <<"bind", "params_sim.a0", "a0">>, <<"bind", "params_sim.z0", "z0">>,
                <<"bind", "params_sim.grid_z", "grid_z">>,
                <<"bind", "params_sim.grid_a", "grid_a">>,
                <<"bind", "params_sim.pi", "pi">> >>
        ELSE << >>)

\* solve_hh(self.params_pfi, r, w), lines 860-921, results bound to sav, cons
ProgSolveHH(sav, cons) ==
    << <<"bind", "l_pi", "params_pfi.pi">>, <<"bind", "l_grid_a", "params_pfi.grid_a">>,
       <<"bind", "l_grid_z", "params_pfi.grid_z">>,
       <<"new", "pol_sav_old", "np.zeros">>, <<"new", "pol_sav_new", "np.zeros">>,
       <<"new", "pol_cons_new", "np.zeros">>,
       <<"write", "pol_sav_new", "solve_hh">>, <<"write", "pol_cons_new", "solve_hh">>,
       <<"copy", "pol_sav_old", "pol_sav_new">>,
       <<"bind", sav, "pol_sav_new">>, <<"bind", cons, "pol_cons_new">> >>

\* discrete_stationary_density(sav, self.params_discrete), lines 1126-1187
ProgDiscrete(sav, dst) ==
    << <<"bind", "l_pol_sav", sav>>,
       <<"bind", "l_grid_a", "params_discrete.grid_a">>,
       <<"bind", "l_grid_a_fine", "params_discrete.grid_a_fine">>,
       <<"bind", "l_pi", "params_discrete.pi">>,
       <<"bind", "l_pi_stat", "params_discrete.pi_stat">>,
       <<"new", "pdf_old", "np.ones">>, <<"new", "pdf", "np.zeros">>,
       <<"write", "pdf", "discrete_stationary_density">>,
       <<"new", "pdf", "stationary_pdf / np.sum">>,
       <<"copy", "pdf_old", "pdf">>, <<"bind", dst, "pdf">> >>

\* eigen_stationary_density, lines 297-367, as called at line 550
ProgEigen ==
    << <<"bind", "l_pol_sav", "pol_sav">>, <<"bind", "l_grid_a_fine", "grid_a_fine">>,
       <<"bind", "l_pi", "pi">>,
       <<"new", "Q_new", "np.zeros">>, <<"write", "Q_new", "eigen_stationary_density">>,
       <<"new", "eigen_vec", "np.linalg.eig">>, <<"copy", "pdf", "eigen_vec">>,
       <<"new", "pdf", "stationary_pdf / np.sum">>,
       <<"bind", "stationary_pdf", "pdf">>, <<"bind", "Q", "Q_new">> >>

\* simulate_MonteCarlo(..., self.params_sim), lines 989-1098, as called at
\* line 569
ProgMonteCarlo ==
    << <<"bind", "l_pol_sav", "pol_sav">>,
       <<"bind", "l_a0", "params_sim.a0">>, <<"bind", "l_z0", "params_sim.z0">>,
       <<"bind", "l_grid_z", "params_sim.grid_z">>,
       <<"bind", "l_grid_a", "params_sim.grid_a">>, <<"bind", "l_pi", "params_sim.pi">>,
       <<"new", "sim_sav_new", "np.zeros">>, <<"new", "err_new", "np.empty">>,
       <<"write", "sim_sav_new", "simulate_MonteCarlo">>,
       <<"write", "err_new", "simulate_MonteCarlo">>,
       <<"new", "err_new", "np.log10">>,
       <<"bind", "ss_sim_sav", "sim_sav_new">>, <<"bind", "euler_error_sim", "err_new">> >>

\* ge_algorithm, lines 494-597
ProgGE(o) ==
    ProgSolveHH("pol_sav", "pol_cons")
    \o (IF o.distribution_method = "discrete"
        THEN ProgDiscrete("pol_sav", "stationary_pdf")
               \o << <<"bind", "l_grid_a_fine", "grid_a_fine">> >>
        ELSE << >>)
    \o (IF o.distribution_method = "eigenvector"
        THEN ProgEigen \o << <<"bind", "l_grid_a_fine", "grid_a_fine">> >>
        ELSE << >>)
    \o (IF o.distribution_method = "monte carlo" THEN ProgMonteCarlo ELSE << >>)

\* ee_error, lines 391-436, as called at line 662
ProgEE ==
    << <<"new", "err_new", "np.zeros">>,
       <<"bind", "l_grid_z", "grid_z">>, <<"bind", "l_grid_a_fine", "grid_a_fine">>,
       <<"bind", "l_grid_a", "grid_a">>, <<"bind", "l_pol_sav", "pol_sav">>,
       <<"bind", "l_pi", "pi">>,
       <<"write", "err_new", "ee_error">>, <<"new", "err_new", "np.log10">>,
       <<"bind", "euler_error", "err_new">> >>

\* lines 707-708: r_vec and graph_supply_demand (lines 457-482)
ProgGraph ==
    << <<"new", "r_vec", "np.linspace">>,
       <<"new", "k_demand_new", "np.empty">>, <<"new", "k_supply_new", "np.empty">>,
       <<"write", "k_demand_new", "graph_supply_demand">> >>
    \o ProgSolveHH("l_pol_sav", "ret")
    \o ProgDiscrete("l_pol_sav", "pdf")
    \o << <<"bind", "l_grid_a_fine", "grid_a_fine">>,
          <<"write", "k_supply_new", "graph_supply_demand">>,
          <<"bind", "k_demand", "k_demand_new">>, <<"bind", "k_supply", "k_supply_new">> >>

\* bound of the model: the number of method calls made on one instance
MaxCalls == 3

\* the options of an instance whose construction is followed to its end
FzOptions ==
    [distribution_method : Methods, plott : {1}, full_euler_error : {0, 1},
     plot_supply_demand : {0, 1}]

\* lines 72-106
FZ_Construct(o) ==
    /\ fz_pc = "new"
    /\ fz_opt' = o
    /\ fz_arr' = Run(NoArrays, ProgInit(o)).arr
    /\ fz_frozen' = [n \in FrozenNames |-> Run(NoArrays, ProgInit(o)).arr[n]]
    /\ fz_pc' = IF Run(NoArrays, ProgInit(o)).err THEN "failed" ELSE "ready"
    /\ fz_calls' = 0
    /\ UNCHANGED <<ctor_pc, opt, attrs, ctor_exc, solve_started, instVars>>
    /\ UNCHANGED <<solveVars, smcVars, hhVars, plVars, disVars, mcVars,
                 hhHist, disHist, eigVars, eeVars, mgVars, geVars>>

\* a call of a method on the constructed instance
FZ_Call(prog) ==
    /\ fz_pc = "ready"
    /\ fz_calls < MaxCalls
    /\ fz_arr' = Run(fz_arr, prog).arr
    /\ fz_calls' = fz_calls + 1
    /\ UNCHANGED <<fz_pc, fz_opt, fz_frozen>>
    /\ UNCHANGED <<ctor_pc, opt, attrs, ctor_exc, solve_started, instVars>>
    /\ UNCHANGED <<solveVars, smcVars, hhVars, plVars, disVars, mcVars,
                 hhHist, disHist, eigVars, eeVars, mgVars, geVars>>

\* line 631 (and solve_hh with its engine, called from it)
FZ_GE == FZ_Call(ProgGE(fz_opt))
\* line 662
FZ_EE == FZ_Call(ProgEE)
\* lines 707-708
FZ_Graph == FZ_Call(ProgGraph)
\* stationary_mc called with the transition matrix of the instance
FZ_StationaryMC == FZ_Call(ProgStationaryMC("pi", "caller.pi_stat"))
\* the two jitted functions called on their own, as graph_supply_demand does
FZ_SolveHH == FZ_Call(ProgSolveHH("pol_sav", "pol_cons"))
FZ_Discrete == FZ_Call(ProgDiscrete("pol_sav", "stationary_pdf"))

InitFrozen == Idle

NextFrozen ==
    \/ \E o \in FzOptions : FZ_Construct(o)
    \/ FZ_GE
    \/ FZ_EE
    \/ FZ_Graph
    \/ FZ_StationaryMC
    \/ FZ_SolveHH
    \/ FZ_Discrete

SpecFrozen == InitFrozen /\ [][NextFrozen]_vars

\* C25: after the constructor has returned, the asset grids, the income
\* states, pi and pi_stat are the arrays the constructor left, with the
\* contents it left, whatever methods are called and in whatever order; in
\* particular stationary_mc does not write into the matrix it is given.
C25_GridsFrozen ==
    fz_pc = "ready" => \A n \in FrozenNames : fz_arr[n] = fz_frozen[n]
\* an equilibrium pass and a call of stationary_mc have both run
C25_Witness ==
    /\ fz_pc = "ready"
    /\ fz_calls >= 2
    /\ fz_arr["pol_sav"].by = "solve_hh"
    /\ fz_arr["stationary_pdf"].id # 0
    /\ fz_arr["caller.pi_stat"].id # 0
    /\ fz_arr["params_pfi.pi"] = fz_arr["pi"]

---------------------------------------------------------------------------
(* solve_model, lines 607-653                                              *)

\* np.abs(diff) > np.abs(diff_old), line 639
AbsGreater(d, d_old) == IsNum(d_old) /\ Abs(d) > Abs(d_old.v)

\* the value line 630 leaves in diff_old at the top of every outer pass
DiffOldReset_Keep(d_old) == IF IsNum(d_old) THEN d_old ELSE Inf
DiffOldReset(d_old) == Inf

\* lines 639-642: the damped update of the guess
UpdateGuess(r, d, d_old) ==
    IF AbsGreater(d, d_old) THEN r - d \div dp_small_den
                            ELSE r - d \div dp_big_den

\* line 625: "for it in range(self.maxit_ss)" has a pass with index i
InRange_Inclusive(i) == i <= maxit_ss
InRange(i) == i < maxit_ss

\* line 647: "if it > self.maxit_ss-1"
NoConvTest(i, conv) == i > maxit_ss - 1

\* line 619: assert (1 + r_guess) * self.beta < 1
Stable(r) == (RateScale + r) * beta_num < RateScale * beta_den

InitSolve == Idle

\* lines 616-619
SM_Start ==
    /\ sm_pc = "start"
    /\ r_guess' = r_guess0
    /\ sm_pc' = IF Stable(r_guess0) THEN "loop" ELSE "raised"
    /\ UNCHANGED <<it, diff, diff_old, diff_prev, r_ss, w_ss, r_used, no_conv_msg, sm_converged>>
    /\ UNCHANGED <<ctorVars, smcVars, hhVars, plVars, disVars, mcVars,
                 hhHist, disHist, eigVars, eeVars, mgVars, geVars>>

\* lines 625-631: next pass of the for loop; ge_algorithm returns d
SM_GE(d) ==
    /\ sm_pc = "loop"
    /\ InRange(it + 1)
    /\ it' = it + 1
    /\ diff_prev' = diff_old
    /\ diff_old' = DiffOldReset(diff_old)
    /\ diff' = Num(d)
    /\ sm_pc' = "check"
    /\ r_used' = Num(r_guess)
    /\ UNCHANGED <<r_guess, r_ss, w_ss, no_conv_msg, sm_converged>>
    /\ UNCHANGED <<ctorVars, smcVars, hhVars, plVars, disVars, mcVars,
                 hhHist, disHist, eigVars, eeVars, mgVars, geVars>>

\* lines 625-631: ge_algorithm raises (lines 511, 533, 356, 902, 1096)
SM_GE_Raise ==
    /\ sm_pc = "loop"
    /\ InRange(it + 1)
    /\ it' = it + 1
    /\ diff_prev' = diff_old
    /\ diff_old' = DiffOldReset(diff_old)
    /\ sm_pc' = "raised"
    /\ r_used' = Num(r_guess)
    /\ UNCHANGED <<r_guess, diff, r_ss, w_ss, no_conv_msg, sm_converged>>
    /\ UNCHANGED <<ctorVars, smcVars, hhVars, plVars, disVars, mcVars,
                 hhHist, disHist, eigVars, eeVars, mgVars, geVars>>

\* lines 633-636
SM_Converge ==
    /\ sm_pc = "check"
    /\ Abs(diff.v) < ss_r_tol
    /\ sm_converged' = TRUE
    /\ sm_pc' = "after"
    /\ UNCHANGED <<it, r_guess, diff, diff_old, diff_prev, r_ss, w_ss, r_used, no_conv_msg>>
    /\ UNCHANGED <<ctorVars, smcVars, hhVars, plVars, disVars, mcVars,
                 hhHist, disHist, eigVars, eeVars, mgVars, geVars>>

\* lines 637-645
SM_Update ==
    /\ sm_pc = "check"
    /\ ~(Abs(diff.v) < ss_r_tol)
    /\ r_guess' = UpdateGuess(r_guess, diff.v, diff_old)
    /\ diff_old' = diff
    /\ sm_pc' = "loop"
    /\ UNCHANGED <<it, diff, diff_prev, r_ss, w_ss, r_used, no_conv_msg, sm_converged>>
    /\ UNCHANGED <<ctorVars, smcVars, hhVars, plVars, disVars, mcVars,
                 hhHist, disHist, eigVars, eeVars, mgVars, geVars>>

\* line 625: range(self.maxit_ss) is exhausted
SM_Exhaust ==
    /\ sm_pc = "loop"
    /\ ~InRange(it + 1)
    /\ sm_pc' = "after"
    /\ UNCHANGED <<it, r_guess, diff, diff_old, diff_prev, r_ss, w_ss, r_used, no_conv_msg,
                   sm_converged>>
    /\ UNCHANGED <<ctorVars, smcVars, hhVars, plVars, disVars, mcVars,
                 hhHist, disHist, eigVars, eeVars, mgVars, geVars>>

\* lines 647-653
SM_Finish ==
    /\ sm_pc = "after"
    /\ no_conv_msg' = NoConvTest(it, sm_converged)
    /\ r_ss' = Num(r_guess)
    /\ w_ss' = r_ss'
    /\ sm_pc' = "done"
    /\ UNCHANGED <<it, r_guess, diff, diff_old, diff_prev, sm_converged, r_used>>
    /\ UNCHANGED <<ctorVars, smcVars, hhVars, plVars, disVars, mcVars,
                 hhHist, disHist, eigVars, eeVars, mgVars, geVars>>

NextSolve ==
    \/ SM_Start
    \/ \E d \in DiffValues : SM_GE(d)
    \/ SM_GE_Raise
    \/ SM_Converge
    \/ SM_Update
    \/ SM_Exhaust
    \/ SM_Finish

SpecSolve == InitSolve /\ [][NextSolve]_vars

\* solve_model runs on: a call of ge_algorithm returns or raises, and the
\* statements between two calls are executed
SpecSolveFair == SpecSolve /\ WF_vars(NextSolve)

---------------------------------------------------------------------------
(* solve_model with ge_algorithm followed stage by stage: lines 486-597    *)
(* inside the loop of lines 625-645.  The household solve and the engines  *)
(* are taken by their outcome only (an iteration count, or an exception);  *)
(* ge_trace records the stages in the order they are executed.             *)

\* lines 522, 547, 566: "if self.distribution_method == ..."
EngineRuns_All(dm, e) == TRUE
EngineRuns(dm, e) == dm = e

\* what solve_hh hands back: its iteration count, or the exception of line 902
HouseholdOutcomes == {"Exception"} \cup {"it"}

\* __init__ line 99 has accepted self.distribution_method
LOOP_Construct(m) ==
    /\ ge_pc = "idle"
    /\ ge_method' = m
    /\ ge_pc' = "out"
    /\ UNCHANGED <<ge_trace, ge_error>>
    /\ UNCHANGED <<solveVars, ctorVars, smcVars, hhVars, plVars, disVars, mcVars,
                   hhHist, disHist, eigVars, eeVars, mgVars>>

\* lines 625-630 and 495-496: next pass of the for loop, ge_algorithm is
\* entered and derives the wage from the guess
GE_Enter ==
    /\ sm_pc = "loop"
    /\ ge_pc = "out"
    /\ InRange(it + 1)
    /\ it' = it + 1
    /\ diff_prev' = diff_old
    /\ diff_old' = DiffOldReset(diff_old)
    /\ sm_pc' = "ge"
    /\ ge_pc' = "household"
    /\ ge_trace' = Append(ge_trace, "wage")
    /\ r_used' = Num(r_guess)
    /\ UNCHANGED <<r_guess, diff, r_ss, w_ss, no_conv_msg, sm_converged>>
    /\ UNCHANGED <<ge_method, ge_error>>
    /\ UNCHANGED <<ctorVars, smcVars, hhVars, plVars, disVars, mcVars,
                   hhHist, disHist, eigVars, eeVars, mgVars>>

\* lines 506-511
GE_Household(out, it_hh) ==
    /\ ge_pc = "household"
    /\ ge_trace' = Append(ge_trace, "household")
    /\ IF out = "Exception"
       THEN /\ ge_error' = "Sign of lower bound and upperbound are the same"
            /\ ge_pc' = "raised"
            /\ sm_pc' = "raised"
       ELSE IF HHAccepted(it_hh)
       THEN /\ ge_pc' = "discrete"
            /\ UNCHANGED <<ge_error, sm_pc>>
       ELSE /\ ge_error' = "No policy function convergence."
            /\ ge_pc' = "raised"
            /\ sm_pc' = "raised"
    /\ UNCHANGED <<it, r_guess, diff, diff_old, diff_prev, r_ss, w_ss, r_used, no_conv_msg,
                   sm_converged>>
    /\ UNCHANGED ge_method
    /\ UNCHANGED <<ctorVars, smcVars, hhVars, plVars, disVars, mcVars,
                   hhHist, disHist, eigVars, eeVars, mgVars>>

\* lines 522-541
GE_Discrete(it_pdf) ==
    /\ ge_pc = "discrete"
    /\ IF EngineRuns(ge_method, "discrete")
       THEN IF DisAccepted(it_pdf)
            THEN /\ ge_trace' = ge_trace \o <<"discrete", "aggregate">>
                 /\ ge_pc' = "eigenvector"
                 /\ UNCHANGED <<ge_error, sm_pc>>
            ELSE /\ ge_trace' = Append(ge_trace, "discrete")
                 /\ ge_error' = "No density function convergence."
                 /\ ge_pc' = "raised"
                 /\ sm_pc' = "raised"
       ELSE /\ ge_pc' = "eigenvector"
            /\ UNCHANGED <<ge_trace, ge_error, sm_pc>>
    /\ UNCHANGED <<it, r_guess, diff, diff_old, diff_prev, r_ss, w_ss, r_used, no_conv_msg,
                   sm_converged>>
    /\ UNCHANGED ge_method
    /\ UNCHANGED <<ctorVars, smcVars, hhVars, plVars, disVars, mcVars,
                   hhHist, disHist, eigVars, eeVars, mgVars>>

\* lines 547-561; eigen_stationary_density raises at line 356
GE_Eigen(ok) ==
    /\ ge_pc = "eigenvector"
    /\ IF EngineRuns(ge_method, "eigenvector")
       THEN IF ok
            THEN /\ ge_trace' = ge_trace \o <<"eigenvector", "aggregate">>
                 /\ ge_pc' = "monte carlo"
                 /\ UNCHANGED <<ge_error, sm_pc>>
            ELSE /\ ge_trace' = Append(ge_trace, "eigenvector")
                 /\ ge_error' = "Stationary eigenvector has complex part."
                 /\ ge_pc' = "raised"
                 /\ sm_pc' = "raised"
       ELSE /\ ge_pc' = "monte carlo"
            /\ UNCHANGED <<ge_trace, ge_error, sm_pc>>
    /\ UNCHANGED <<it, r_guess, diff, diff_old, diff_prev, r_ss, w_ss, r_used, no_conv_msg,
                   sm_converged>>
    /\ UNCHANGED ge_method
    /\ UNCHANGED <<ctorVars, smcVars, hhVars, plVars, disVars, mcVars,
                   hhHist, disHist, eigVars, eeVars, mgVars>>

\* lines 566-589; simulate_MonteCarlo raises at line 1096
GE_MonteCarlo(ok) ==
    /\ ge_pc = "monte carlo"
    /\ IF EngineRuns(ge_method, "monte carlo")
       THEN IF ok
            THEN /\ ge_trace' = ge_trace \o <<"monte carlo", "aggregate">>
                 /\ ge_pc' = "residual"
                 /\ UNCHANGED <<ge_error, sm_pc>>
            ELSE /\ ge_trace' = Append(ge_trace, "monte carlo")
                 /\ ge_error' = "Grid Error: increase grid in simulation"
                 /\ ge_pc' = "raised"
                 /\ sm_pc' = "raised"
       ELSE /\ ge_pc' = "residual"
            /\ UNCHANGED <<ge_trace, ge_error, sm_pc>>
    /\ UNCHANGED <<it, r_guess, diff, diff_old, diff_prev, r_ss, w_ss, r_used, no_conv_msg,
                   sm_converged>>
    /\ UNCHANGED ge_method
    /\ UNCHANGED <<ctorVars, smcVars, hhVars, plVars, disVars, mcVars,
                   hhHist, disHist, eigVars, eeVars, mgVars>>

\* lines 594-597 and 631: diff = r_ss_guess - r_func(k_ss) is returned
GE_Residual(d) ==
    /\ ge_pc = "residual"
    /\ diff' = Num(d)
    /\ ge_trace' = Append(ge_trace, "residual")
    /\ ge_pc' = "out"
    /\ sm_pc' = "check"
    /\ UNCHANGED <<it, r_guess, diff_old, diff_prev, r_ss, w_ss, r_used, no_conv_msg, sm_converged>>
    /\ UNCHANGED <<ge_method, ge_error>>
    /\ UNCHANGED <<ctorVars, smcVars, hhVars, plVars, disVars, mcVars,
                   hhHist, disHist, eigVars, eeVars, mgVars>>

\* lines 633-645
LOOP_Check ==
    /\ sm_pc = "check"
    /\ ge_pc = "out"
    /\ IF Abs(diff.v) < ss_r_tol
       THEN /\ sm_converged' = TRUE
            /\ sm_pc' = "after"
            /\ ge_trace' = Append(ge_trace, "check")
            /\ UNCHANGED <<r_guess, diff_old>>
       ELSE /\ r_guess' = UpdateGuess(r_guess, diff.v, diff_old)
            /\ diff_old' = diff
            /\ sm_pc' = "loop"
            /\ ge_trace' = ge_trace \o <<"check", "update">>
            /\ UNCHANGED sm_converged
    /\ UNCHANGED <<it, diff, diff_prev, r_ss, w_ss, r_used, no_conv_msg>>
    /\ UNCHANGED <<ge_pc, ge_method, ge_error>>
    /\ UNCHANGED <<ctorVars, smcVars, hhVars, plVars, disVars, mcVars,
                   hhHist, disHist, eigVars, eeVars, mgVars>>

InitLoop == Idle

NextLoop ==
    \/ \E m \in Methods : LOOP_Construct(m)
    \/ SM_Start
    \/ GE_Enter
    \/ \E out \in HouseholdOutcomes, it_hh \in 0..(maxit_hh - 1) : GE_Household(out, it_hh)
    \/ \E it_pdf \in 0..(maxit_dis - 1) : GE_Discrete(it_pdf)
    \/ \E ok \in BOOLEAN : GE_Eigen(ok)
    \/ \E ok \in BOOLEAN : GE_MonteCarlo(ok)
    \/ \E d \in DiffValues : GE_Residual(d)
    \/ LOOP_Check
    \/ SM_Exhaust
    \/ SM_Finish

SpecLoop == InitLoop /\ [][NextLoop]_vars

\* the stages of one outer iteration that runs to its end
StageCycle(dm) ==
    <<"wage", "household", dm, "aggregate", "residual", "check", "update">>

Last(sq) == sq[Len(sq)]

\* C16: every outer iteration runs wage, household solve, the one engine
\* selected at construction, aggregation, residual, convergence check, in
\* this order; the check ends the loop as soon as |residual| < ss_r_tol and
\* is otherwise followed by the update of the guess before the next
\* household solve; after a failure of the household solve no engine runs.
C16_StagesInOrder ==
    /\ \A i \in 1..Len(ge_trace) :
          ge_trace[i] = StageCycle(ge_method)[((i - 1) % 7) + 1]
    /\ (ge_trace # <<>> /\ Last(ge_trace) = "check") =>
          (Abs(diff.v) < ss_r_tol /\ sm_converged /\ sm_pc \in {"after", "done"})
    /\ (ge_trace # <<>> /\ Last(ge_trace) = "update") =>
          (~(Abs(diff.v) < ss_r_tol) /\ ~sm_converged)
    /\ sm_converged => (ge_trace # <<>> /\ Last(ge_trace) = "check")
    /\ ge_error \in {"No policy function convergence.",
                     "Sign of lower bound and upperbound are the same"} =>
          (Last(ge_trace) = "household" /\ sm_pc = "raised")

\* the loop converged in its second outer iteration, after one update
C16_Witness ==
    /\ sm_pc = "done"
    /\ sm_converged
    /\ it = 1
    /\ Len(ge_trace) = 13

---------------------------------------------------------------------------
(* Claims about solve_model                                                *)

\* C1: whenever an outer iteration does not converge, the guess is updated
\* by r_guess - damp*diff with damp = dp_small if |diff| is larger than the
\* |diff| of the previous outer iteration, and dp_big otherwise (including
\* the first iteration).
C1_DampDen == IF IsNum(diff_prev) /\ Abs(diff.v) > Abs(diff_prev.v)
              THEN dp_small_den ELSE dp_big_den
C1_AdaptiveDamping ==
    [][(sm_pc = "check" /\ sm_pc' = "loop")
         => r_guess' = r_guess - diff.v \div C1_DampDen]_vars

\* C2: if the loop runs all maxit_ss iterations without converging, the
\* 'No convergence' message is emitted, nothing is raised and the last guess
\* is stored as r_ss; the message is never emitted for a run that converged.
C2_NoConvReported ==
    sm_pc = "done" =>
        /\ r_ss = Num(r_guess)
        /\ (~sm_converged => no_conv_msg)
        /\ (sm_converged => ~no_conv_msg)

\* C23: dp_small is never used.  At every comparison of line 639 diff_old is
\* the infinity line 630 has just stored, so every update of the guess, for
\* every sequence of residuals, is r_guess - dp_big*diff.
C23_AlwaysBigStep ==
    /\ [](sm_pc = "check" => diff_old = Inf)
    /\ [][(sm_pc = "check" /\ sm_pc' = "loop")
            => r_guess' = r_guess - diff.v \div dp_big_den]_vars
\* an update made after the residual grew in absolute value
C23_Witness ==
    /\ sm_pc = "loop"
    /\ it >= 1
    /\ IsNum(diff_prev)
    /\ Abs(diff.v) > Abs(diff_prev.v)
    /\ diff_old = diff

\* C26: the equilibrium search ends.  ge_algorithm is called at most
\* maxit_ss times; the loop is left at the first pass whose residual is
\* below ss_r_tol in absolute value, or after the pass of index
\* maxit_ss - 1; and every run reaches the end of the loop or an exception.
C26_SearchTerminates ==
    /\ [](it < maxit_ss)
    /\ []((sm_pc = "loop" /\ it >= 0) => ~(Abs(diff.v) < ss_r_tol))
    /\ []((sm_pc = "after" /\ sm_converged) => Abs(diff.v) < ss_r_tol)
    /\ []((sm_pc = "after" /\ ~sm_converged) => it = maxit_ss - 1)
    /\ <>(sm_pc \in {"done", "raised"})
\* the loop was left after maxit_ss calls, none of which converged
C26_Witness ==
    /\ sm_pc = "done"
    /\ it = maxit_ss - 1
    /\ ~sm_converged
    /\ ~(Abs(diff.v) < ss_r_tol)

\* C27: when solve_model has left its loop and stored its results, r_ss is
\* the guess last passed to ge_algorithm, the rate at which the stored
\* pol_sav, pol_cons and k_ss were computed, and w_ss is w_func(r_ss).
C27_StoredStateConsistent ==
    sm_pc = "done" => (r_ss = r_used /\ w_ss = r_ss)

\* C28: every guess ge_algorithm is called with, i.e. every rate the
\* household problem is solved at, satisfies (1 + r_guess) * beta < 1.
C28_GuessesStable ==
    IsNum(r_used) => Stable(r_used.v)

=============================================================================
